---- MODULE Spec2Model ----
(***************************************************************************)
(* Verification model of the concurrent ingestion engine of                *)
(* navernews-tabsearch: the pooled DatabaseManager (core/database.py),     *)
(* its transactional upsert with per-keyword duplicate detection, and the  *)
(* retrying ApiWorker (core/workers.py).                                   *)
(***************************************************************************)
EXTENDS Integers, Sequences, FiniteSets, TLC

(***************************************************************************)
(* Bounds and program constants                                            *)
(***************************************************************************)
\* number of caller threads that use one DatabaseManager
NThreads == 3
\* number of distinct object identities available to emergency connections
MaxEmergency == 2
\* DatabaseManager(max_connections=2), as the tests construct it
MaxConnections == 2

Threads == 1..NThreads
PooledIds == 1..MaxConnections
EmergencyIds == (MaxConnections + 1)..(MaxConnections + MaxEmergency)
ConnIds == PooledIds \cup EmergencyIds
NoConn == 0
\* values of ret besides the pair (added_count, duplicate_count): the call
\* has not returned, the call raised RuntimeError
NoReturn == <<>>
Raised == <<"raised">>

VARIABLES
    db_file,                \* the file at self.db_file: "absent", "intact", "corrupt" or "fresh"
    backups,                \* files named <db_file>.corrupt_<timestamp>
    ipc,                    \* position of DatabaseManager.__init__
    opened,                 \* states of the file in which init_db and _create_connection opened it
    connection_pool,        \* Queue(maxsize=max_connections): FIFO of connection ids
    closed,                 \* self._closed
    active_connections,     \* self._active_connections
    emergency_connections,  \* self._emergency_connections: set of id(conn)
    connOpen,               \* per connection object: TRUE until conn.close()
    pc,                     \* per thread: position in the method it executes
    op,                     \* per thread: the public method the caller invoked
    conn,                   \* per thread: local variable conn of the running method
    held,                   \* per thread: connection the caller checked out and has not returned
    out,                    \* per thread: outcome of the last get_connection call
    news,                   \* committed rows of table news
    news_keywords,          \* committed rows of table news_keywords: per keyword, in rowid order
    writer,                 \* thread whose connection holds the store's write lock, or 0
    txn,                    \* per thread: uncommitted tables of its open transaction
    clock,                  \* the time in whole seconds that strftime('%s', 'now') and datetime.now() read
    items,                  \* per thread: argument items of upsert_news
    keyword,                \* per thread: argument keyword of upsert_news
    news_insert_data,       \* per thread: local list news_insert_data
    kw_insert_data,         \* per thread: local list kw_insert_data
    added_count,            \* per thread: local added_count
    duplicate_count,        \* per thread: local duplicate_count
    ret,                    \* per thread: what the last upsert_news (or other data operation) call returned
    max_retries,            \* ApiWorker.max_retries
    is_running,             \* ApiWorker._is_running
    destroyed,              \* ApiWorker._destroyed
    wpc,                    \* position of ApiWorker.run
    attempt,                \* loop variable attempt of run
    wait_left,              \* seconds left of the rate-limit backoff
    sig,                    \* terminal signal _safe_emit is about to emit, or "none"
    events,                 \* terminal signals emitted so far, in order
    spc,                    \* position of ApiWorker.stop
    requests,               \* number of session.get calls run has made
    after,                  \* where run goes on when the current _safe_emit returns
    result,                 \* locals added_count, dup_count of run, or <<>>
    transient,              \* every response so far was a rate limit, a timeout or a network error
    resp,                   \* what the last session.get produced, or "none"
    witems,                 \* local list items of run
    raw_items,              \* items of raw_items the per-item loop of run has not visited yet
    tabs,                   \* MainApp.tabs: keywords of the news tabs, in tab order
    worker_request_seq,     \* MainApp._worker_request_seq
    handles_by_request_id,  \* WorkerRegistry._handles_by_request_id: request_id -> tab_keyword
    active_request_id_by_tab_keyword, \* WorkerRegistry._active_request_id_by_tab_keyword
    request_start_index,    \* MainApp._request_start_index: request_id -> start_idx
    workers,                \* MainApp.workers: tab keyword -> request whose (worker, thread) it holds
    tab_fetch_state,        \* MainApp._tab_fetch_state: tab keyword -> last_api_start_index
    last_fetch_request_ts,  \* MainApp._last_fetch_request_ts: the fetch keys whose stamp lies inside the dedupe window
    network_error_count,    \* MainApp._network_error_count
    network_available,      \* MainApp._network_available
    reloaded,               \* per tab: request whose completion last reloaded the tab
    loading,                \* tabs whose load-more button is disabled
    sequential_refresh_active,  \* MainApp._sequential_refresh_active
    current_refresh_idx,    \* MainApp._current_refresh_idx
    pending_refresh_keywords,   \* MainApp._pending_refresh_keywords
    total_refresh_count,    \* MainApp._total_refresh_count
    sequential_added_count, \* MainApp._sequential_added_count
    sequential_dup_count,   \* MainApp._sequential_dup_count
    refresh_in_progress,    \* MainApp._refresh_in_progress
    timers,                 \* pending QTimer.singleShot(..., self._process_next_refresh)
    dispatched,             \* tab keywords fetched in sequential mode since the cycle began
    completions,            \* aggregate completion toasts shown by _finish_sequential_refresh
    last_return,            \* what the last call of refresh_all returned
    req,                    \* per request: its ApiWorker, its QThread and the arguments its slots captured
    queue,                  \* queued slot calls waiting in the controller thread's event loop
    mpc,                    \* position of the handler the controller thread is executing
    ctx                     \* locals of that handler

startVars == <<db_file, backups, ipc, opened>>
poolVars == <<connection_pool, closed, active_connections, emergency_connections, connOpen>>
thrVars == <<pc, op, conn, held, out>>
storeVars == <<news, news_keywords, writer, txn>>
upsertVars == <<items, keyword, news_insert_data, kw_insert_data, added_count, duplicate_count, ret>>
dbVars == <<storeVars, upsertVars>>
workerVars == <<max_retries, is_running, destroyed, wpc, attempt, wait_left, sig, events, spc,
                requests, after, result, transient, resp, witems, raw_items>>
registryVars == <<worker_request_seq, handles_by_request_id, active_request_id_by_tab_keyword,
                  request_start_index, workers>>
fetchVars == <<tab_fetch_state, last_fetch_request_ts, network_error_count, network_available,
               reloaded, loading>>
cycleVars == <<sequential_refresh_active, current_refresh_idx, pending_refresh_keywords,
               total_refresh_count, sequential_added_count, sequential_dup_count,
               refresh_in_progress, timers, dispatched, completions, last_return>>
runVars == <<tabs, req, queue, mpc, ctx>>
appVars == <<registryVars, fetchVars, cycleVars, runVars>>
vars == <<startVars, clock, poolVars, thrVars, dbVars, workerVars, appVars>>

(***************************************************************************)
(* DatabaseManager.__init__: the pool is filled with max_connections       *)
(* connections, the manager is open, nothing is checked out.               *)
(***************************************************************************)
RECURSIVE SeqOfRange(_, _)
SeqOfRange(a, b) == IF a > b THEN <<>> ELSE <<a>> \o SeqOfRange(a + 1, b)

\* __init__ has returned: it found no file, created one and filled the pool
InitPool ==
    /\ db_file = "fresh"
    /\ backups = {}
    /\ ipc = "ready"
    /\ opened = {"fresh"}
    /\ connection_pool = SeqOfRange(1, MaxConnections)
    /\ closed = FALSE
    /\ active_connections = 0
    /\ emergency_connections = {}
    /\ connOpen = [c \in ConnIds |-> c \in PooledIds]

(***************************************************************************)
(* DatabaseManager.__init__: integrity check, recovery, schema, pool       *)
(***************************************************************************)
\* the fields set before the integrity check, with the file as found
DatabaseManagerInit ==
    /\ db_file \in {"absent", "intact", "corrupt"}
    /\ backups = {}
    /\ ipc = "check"
    /\ opened = {}
    /\ connection_pool = <<>>
    /\ closed = FALSE
    /\ active_connections = 0
    /\ emergency_connections = {}
    /\ connOpen = [c \in ConnIds |-> FALSE]

StartupFrame == UNCHANGED <<clock, thrVars, dbVars, workerVars, appVars>>

\* if os.path.exists(self.db_file): if not self._check_integrity(): ...
\* PRAGMA integrity_check answers "ok" for an intact file only
CheckIntegrity ==
    /\ ipc = "check"
    /\ ipc' = IF db_file = "corrupt" THEN "recover" ELSE "init_db"
    /\ UNCHANGED <<db_file, backups, opened, poolVars>>
    /\ StartupFrame

\* timestamp = datetime.datetime.now().strftime(...): the module binds the
\* name datetime to the class (from datetime import datetime), which has no
\* attribute datetime, so the expression raises AttributeError
TimestampRaises == TRUE

\* _recover_database: every exception ends in the except branch, which logs
\* and returns.  renamed: os.rename succeeded; copied, removed: shutil.copy2
\* and os.remove of the fallback succeeded
RecoverDatabase ==
    /\ ipc = "recover"
    /\ ipc' = "init_db"
    /\ IF TimestampRaises
       THEN UNCHANGED <<db_file, backups>>
       ELSE \E renamed \in BOOLEAN, copied \in BOOLEAN, removed \in BOOLEAN :
                /\ backups' = IF renamed \/ copied THEN backups \cup {"corrupt_timestamp"}
                              ELSE backups
                /\ db_file' = IF renamed \/ (copied /\ removed) THEN "absent" ELSE db_file
    /\ UNCHANGED <<opened, poolVars>>
    /\ StartupFrame

\* init_db: sqlite3.connect(self.db_file) creates a missing file, then the
\* schema statements run; on a corrupt file they may raise, and __init__ with them
InitDb ==
    /\ ipc = "init_db"
    /\ opened' = opened \cup {IF db_file = "absent" THEN "fresh" ELSE db_file}
    /\ db_file' = IF db_file = "absent" THEN "fresh" ELSE db_file
    /\ \E raises \in {FALSE, db_file = "corrupt"} :
           ipc' = IF raises THEN "failed" ELSE "fill_pool"
    /\ UNCHANGED <<backups, poolVars>>
    /\ StartupFrame

\* for _ in range(max_connections): self.connection_pool.put(self._create_connection())
FillPool ==
    /\ ipc = "fill_pool"
    /\ opened' = opened \cup {db_file}
    /\ connection_pool' = SeqOfRange(1, MaxConnections)
    /\ connOpen' = [c \in ConnIds |-> c \in PooledIds]
    /\ ipc' = "ready"
    /\ UNCHANGED <<db_file, backups, closed, active_connections, emergency_connections>>
    /\ StartupFrame

InitThreads ==
    /\ pc = [t \in Threads |-> "idle"]
    /\ op = [t \in Threads |-> "none"]
    /\ conn = [t \in Threads |-> NoConn]
    /\ held = [t \in Threads |-> NoConn]
    /\ out = [t \in Threads |-> "none"]

\* connection objects that are referenced by some caller or running method
LiveConns == {held[t] : t \in Threads} \cup {conn[t] : t \in Threads}
InPool(c) == \E i \in 1..Len(connection_pool) : connection_pool[i] = c

(***************************************************************************)
(* get_connection                                                          *)
(* The steps are shared by direct callers (op = "get") and by upsert_news  *)
(* (op = "upsert"), which calls get_connection before its try block.       *)
(***************************************************************************)
\* a get_connection that never looks at self._closed
ShouldRaiseNever(isClosed) == FALSE

\* if self._closed: raise RuntimeError
ShouldRaise(isClosed) == isClosed

\* a get that reads the head of the queue and leaves it queued
PoolAfterPeek(q) == q

\* Queue.get removes the head of the queue
PoolAfterGet(q) == Tail(q)

\* a caller that holds no connection calls get_connection()
CallGet(t) ==
    /\ pc[t] = "idle" /\ held[t] = NoConn
    /\ pc' = [pc EXCEPT ![t] = "get_check"]
    /\ op' = [op EXCEPT ![t] = "get"]
    /\ out' = [out EXCEPT ![t] = "none"]
    /\ UNCHANGED <<poolVars, conn, held, dbVars>>
    /\ UNCHANGED <<startVars, clock, workerVars, appVars>>

\* the data operations that run one statement inside "with conn:"
StatementOps == {"delete_old_news", "delete_all_news", "mark_all_as_read", "update_status"}

\* get_connection returns connection c to whoever called it
GetFinish(t, c, kind) ==
    /\ out' = [out EXCEPT ![t] = kind]
    /\ IF op[t] = "upsert" \/ op[t] \in StatementOps
         THEN /\ conn' = [conn EXCEPT ![t] = c]
              /\ pc' = [pc EXCEPT ![t] = IF op[t] = "upsert" THEN "u_select" ELSE "x_exec"]
              /\ UNCHANGED <<op, held>>
         ELSE /\ held' = [held EXCEPT ![t] = c]
              /\ conn' = [conn EXCEPT ![t] = NoConn]
              /\ pc' = [pc EXCEPT ![t] = "idle"]
              /\ op' = [op EXCEPT ![t] = "none"]

GetCheck(t) ==
    /\ pc[t] = "get_check"
    /\ IF ShouldRaise(closed)
         THEN /\ pc' = [pc EXCEPT ![t] = "idle"]
              /\ op' = [op EXCEPT ![t] = "none"]
              /\ out' = [out EXCEPT ![t] = "raised"]
              \* the RuntimeError leaves upsert_news uncaught (line 272 is
              \* outside the try block), and so the other data operations
              /\ ret' = IF op[t] = "upsert" \/ op[t] \in StatementOps
                        THEN [ret EXCEPT ![t] = Raised] ELSE ret
         ELSE /\ pc' = [pc EXCEPT ![t] = "get_wait"]
              /\ UNCHANGED <<op, out, ret>>
    /\ UNCHANGED <<poolVars, conn, held, storeVars, items, keyword,
                   news_insert_data, kw_insert_data, added_count, duplicate_count>>
    /\ UNCHANGED <<startVars, clock, workerVars, appVars>>

\* conn = self.connection_pool.get(timeout=timeout) succeeds
GetTake(t) ==
    /\ pc[t] = "get_wait"
    /\ connection_pool # <<>>
    /\ conn' = [conn EXCEPT ![t] = Head(connection_pool)]
    /\ connection_pool' = PoolAfterGet(connection_pool)
    /\ pc' = [pc EXCEPT ![t] = "get_inc"]
    /\ UNCHANGED <<closed, active_connections, emergency_connections, connOpen,
                   op, held, out, dbVars>>
    /\ UNCHANGED <<startVars, clock, workerVars, appVars>>

\* with self._lock: self._active_connections += 1; return conn
GetInc(t) ==
    /\ pc[t] = "get_inc"
    /\ active_connections' = active_connections + 1
    /\ GetFinish(t, conn[t], "pooled")
    /\ UNCHANGED <<connection_pool, closed, emergency_connections, connOpen, dbVars>>
    /\ UNCHANGED <<startVars, clock, workerVars, appVars>>

\* the queue stayed empty for the whole timeout: queue.Empty is caught, an
\* emergency connection is created and its id recorded under the lock
GetEmergency(t) ==
    /\ pc[t] = "get_wait"
    /\ connection_pool = <<>>
    /\ \E c \in EmergencyIds \ LiveConns :
          /\ connOpen' = [connOpen EXCEPT ![c] = TRUE]
          /\ emergency_connections' = emergency_connections \cup {c}
          /\ GetFinish(t, c, "emergency")
    /\ UNCHANGED <<connection_pool, closed, active_connections, dbVars>>
    /\ UNCHANGED <<startVars, clock, workerVars, appVars>>

(***************************************************************************)
(* return_connection                                                       *)
(***************************************************************************)
\* a return_connection that does not tell emergency connections apart
IsEmergencyNever(c, ids) == FALSE

\* if conn_id in self._emergency_connections
IsEmergency(c, ids) == c \in ids

\* a full() that always answers True
PoolFullAlways(q) == TRUE

\* self.connection_pool.full()
PoolFull(q) == Len(q) >= MaxConnections

\* the caller passes the connection it checked out to return_connection
CallReturn(t) ==
    /\ pc[t] = "idle" /\ held[t] # NoConn
    /\ conn' = [conn EXCEPT ![t] = held[t]]
    /\ held' = [held EXCEPT ![t] = NoConn]
    /\ pc' = [pc EXCEPT ![t] = "ret_emerg"]
    /\ op' = [op EXCEPT ![t] = "ret"]
    /\ UNCHANGED <<poolVars, out, dbVars>>
    /\ UNCHANGED <<startVars, clock, workerVars, appVars>>

\* leaving return_connection (and with it upsert_news, whose finally block
\* is its last statement)
RetDone(t) ==
    /\ pc' = [pc EXCEPT ![t] = "idle"]
    /\ op' = [op EXCEPT ![t] = "none"]
    /\ conn' = [conn EXCEPT ![t] = NoConn]

\* with self._lock: emergency connections are discarded and closed
RetCheckEmergency(t) ==
    /\ pc[t] = "ret_emerg"
    /\ IF IsEmergency(conn[t], emergency_connections)
         THEN /\ emergency_connections' = emergency_connections \ {conn[t]}
              /\ connOpen' = [connOpen EXCEPT ![conn[t]] = FALSE]
              /\ RetDone(t)
         ELSE /\ pc' = [pc EXCEPT ![t] = "ret_closed"]
              /\ UNCHANGED <<emergency_connections, connOpen, op, conn>>
    /\ UNCHANGED <<connection_pool, closed, active_connections, held, out, dbVars>>
    /\ UNCHANGED <<startVars, clock, workerVars, appVars>>

\* if self._closed: conn.close(); return
RetCheckClosed(t) ==
    /\ pc[t] = "ret_closed"
    /\ IF closed
         THEN /\ connOpen' = [connOpen EXCEPT ![conn[t]] = FALSE]
              /\ RetDone(t)
         ELSE /\ pc' = [pc EXCEPT ![t] = "ret_dec"]
              /\ UNCHANGED <<connOpen, op, conn>>
    /\ UNCHANGED <<connection_pool, closed, active_connections, emergency_connections,
                   held, out, dbVars>>
    /\ UNCHANGED <<startVars, clock, workerVars, appVars>>

\* with self._lock: self._active_connections = max(0, self._active_connections - 1)
RetDec(t) ==
    /\ pc[t] = "ret_dec"
    /\ active_connections' = IF active_connections > 0 THEN active_connections - 1 ELSE 0
    /\ pc' = [pc EXCEPT ![t] = "ret_full"]
    /\ UNCHANGED <<connection_pool, closed, emergency_connections, connOpen,
                   op, conn, held, out, dbVars>>
    /\ UNCHANGED <<startVars, clock, workerVars, appVars>>

\* if self.connection_pool.full(): conn.close()
RetCheckFull(t) ==
    /\ pc[t] = "ret_full"
    /\ IF PoolFull(connection_pool)
         THEN /\ connOpen' = [connOpen EXCEPT ![conn[t]] = FALSE]
              /\ RetDone(t)
         ELSE /\ pc' = [pc EXCEPT ![t] = "ret_put"]
              /\ UNCHANGED <<connOpen, op, conn>>
    /\ UNCHANGED <<connection_pool, closed, active_connections, emergency_connections,
                   held, out, dbVars>>
    /\ UNCHANGED <<startVars, clock, workerVars, appVars>>

\* self.connection_pool.put_nowait(conn); queue.Full is caught and the
\* connection closed
RetPut(t) ==
    /\ pc[t] = "ret_put"
    /\ IF Len(connection_pool) < MaxConnections
         THEN /\ connection_pool' = Append(connection_pool, conn[t])
              /\ UNCHANGED connOpen
         ELSE /\ connOpen' = [connOpen EXCEPT ![conn[t]] = FALSE]
              /\ UNCHANGED connection_pool
    /\ RetDone(t)
    /\ UNCHANGED <<closed, active_connections, emergency_connections, held, out, dbVars>>
    /\ UNCHANGED <<startVars, clock, workerVars, appVars>>

(***************************************************************************)
(* close                                                                   *)
(***************************************************************************)
\* self._closed = True
CallClose(t) ==
    /\ pc[t] = "idle"
    /\ closed' = TRUE
    /\ pc' = [pc EXCEPT ![t] = "close_clear"]
    /\ op' = [op EXCEPT ![t] = "close"]
    /\ UNCHANGED <<connection_pool, active_connections, emergency_connections, connOpen,
                   conn, held, out, dbVars>>
    /\ UNCHANGED <<startVars, clock, workerVars, appVars>>

\* with self._lock: self._emergency_connections.clear()
CloseClear(t) ==
    /\ pc[t] = "close_clear"
    /\ emergency_connections' = {}
    /\ pc' = [pc EXCEPT ![t] = "close_drain"]
    /\ UNCHANGED <<connection_pool, closed, active_connections, connOpen,
                   op, conn, held, out, dbVars>>
    /\ UNCHANGED <<startVars, clock, workerVars, appVars>>

\* while not self.connection_pool.empty(): get_nowait().close()
CloseDrain(t) ==
    /\ pc[t] = "close_drain"
    /\ IF connection_pool # <<>>
         THEN /\ connOpen' = [connOpen EXCEPT ![Head(connection_pool)] = FALSE]
              /\ connection_pool' = Tail(connection_pool)
              /\ UNCHANGED <<pc, op>>
         ELSE /\ pc' = [pc EXCEPT ![t] = "idle"]
              /\ op' = [op EXCEPT ![t] = "none"]
              /\ UNCHANGED <<connection_pool, connOpen>>
    /\ UNCHANGED <<closed, active_connections, emergency_connections, conn, held, out, dbVars>>
    /\ UNCHANGED <<startVars, clock, workerVars, appVars>>

(***************************************************************************)
(* Store: tables news and news_keywords, and the inputs of upsert_news     *)
(***************************************************************************)
\* longest batch handed to one upsert_news call
MaxBatch == 2

Links == {"l1", "l2"}
Keywords == {"AI", "ECON"}
\* titles are character sequences; the first two differ only in letter case
\* and whitespace
Titles == {<<"A", " ", "b">>, <<"a", "b">>, <<"c">>}
\* the API items the model ingests: the two links carry titles that differ
\* only in case and whitespace, or the same third title
ItemValues == {[link |-> "l1", title |-> <<"A", " ", "b">>], [link |-> "l1", title |-> <<"c">>],
               [link |-> "l2", title |-> <<"a", "b">>], [link |-> "l2", title |-> <<"c">>]}
Batches == UNION {[1..n -> ItemValues] : n \in 0..MaxBatch}

\* str.lower() on the characters titles are built from
Lower(ch) == CASE ch = "A" -> "a" [] ch = "B" -> "b" [] ch = "C" -> "c" [] OTHER -> ch

\* characters matched by RE_WHITESPACE (\s)
IsSpace(ch) == ch \in {" ", "\t", "\n"}

\* RE_WHITESPACE.sub('', title.lower()); the md5 digest of the normalized
\* title is represented by the normalized title itself (md5 taken as
\* collision-free)
RECURSIVE calculate_title_hash(_)
calculate_title_hash(title) ==
    IF title = <<>> THEN <<>>
    ELSE IF IsSpace(Lower(Head(title))) THEN calculate_title_hash(Tail(title))
    ELSE <<Lower(Head(title))>> \o calculate_title_hash(Tail(title))

EmptyTable == [k \in Keywords |-> <<>>]
EmptyTxn == [news |-> {}, nk |-> EmptyTable]

InitStore ==
    /\ clock = 0
    /\ news = {}
    /\ news_keywords = EmptyTable
    /\ writer = 0
    /\ txn = [t \in Threads |-> EmptyTxn]

InitUpsert ==
    /\ items = [t \in Threads |-> <<>>]
    /\ keyword = [t \in Threads |-> "AI"]
    /\ news_insert_data = [t \in Threads |-> <<>>]
    /\ kw_insert_data = [t \in Threads |-> <<>>]
    /\ added_count = [t \in Threads |-> 0]
    /\ duplicate_count = [t \in Threads |-> 0]
    /\ ret = [t \in Threads |-> NoReturn]

\* an existence query without the keyword condition
ExistingHashesAnyKeyword(k, hashes, newsRows, nkRows) ==
    {n.title_hash : n \in {r \in newsRows :
        /\ r.title_hash \in hashes
        /\ \E kk \in Keywords : \E i \in 1..Len(nkRows[kk]) : nkRows[kk][i].link = r.link}}

\* SELECT n.title_hash FROM news n JOIN news_keywords nk ON nk.link = n.link
\* WHERE nk.keyword = ? AND n.title_hash IN (hashes)
ExistingHashes(k, hashes, newsRows, nkRows) ==
    {n.title_hash : n \in {r \in newsRows :
        /\ r.title_hash \in hashes
        /\ \E i \in 1..Len(nkRows[k]) : nkRows[k][i].link = r.link}}

\* the loop over prepared_items: is_dup = title_hash in seen_hashes, then
\* seen_hashes.add(title_hash)
RECURSIVE DupFlags(_, _)
DupFlags(hashes, seen) ==
    IF hashes = <<>> THEN <<>>
    ELSE <<Head(hashes) \in seen>> \o DupFlags(Tail(hashes), seen \cup {Head(hashes)})

CountOf(flags, b) == Cardinality({i \in 1..Len(flags) : flags[i] = b})

\* parse_date_to_ts(item["pubDate"]): the items of link l1 carry a pubDate
\* that does not parse (0.0), the items of link l2 the date 1
PubDateTs(item) == IF item.link = "l1" THEN 0 ELSE 1

\* notes is NULL until a note is saved
NoNote == <<>>

\* the row INSERT INTO news creates: the columns the statement names and the
\* defaults of the others (is_read 0, is_bookmarked 0,
\* created_at strftime('%s', 'now'), notes NULL)
NewRow(r) ==
    [link |-> r.link, title |-> r.title, title_hash |-> r.title_hash,
     pubDate_ts |-> r.pubDate_ts, is_read |-> 0, is_bookmarked |-> 0,
     created_at |-> clock, notes |-> NoNote]

\* an insert into a table news that has no key on link
InsertNewsRowNoKey(rows, r) == rows \cup {NewRow(r)}

\* INSERT OR REPLACE INTO news: the stored row is replaced by a new one
InsertNewsRowReplace(rows, r) == {o \in rows : o.link # r.link} \cup {NewRow(r)}

\* INSERT INTO news ... ON CONFLICT(link) DO UPDATE SET title = excluded.title,
\* ..., pubDate_ts = CASE WHEN excluded.pubDate_ts > 0 THEN excluded.pubDate_ts
\* ELSE pubDate_ts END, title_hash = excluded.title_hash.  Of the columns the
\* statement writes the model keeps the key (link), the two that duplicate
\* detection reads and writes (title, title_hash) and pubDate_ts, which
\* retention reads; the legacy keyword column and the description, pubDate
\* and publisher columns are written by the same statement and read by
\* nothing modelled here.
InsertNewsRow(rows, r) ==
    IF \E o \in rows : o.link = r.link
      THEN {IF o.link = r.link
              THEN [o EXCEPT !.title = r.title, !.title_hash = r.title_hash,
                             !.pubDate_ts = IF r.pubDate_ts > 0 THEN r.pubDate_ts ELSE @]
              ELSE o : o \in rows}
      ELSE rows \cup {NewRow(r)}

\* INSERT INTO news_keywords ... ON CONFLICT(link, keyword) DO UPDATE SET
\* is_duplicate = excluded.is_duplicate
InsertKeywordRow(rows, r) ==
    LET of_kw == rows[r.keyword]
    IN [rows EXCEPT ![r.keyword] =
          IF \E i \in 1..Len(of_kw) : of_kw[i].link = r.link
            THEN [i \in 1..Len(of_kw) |->
                    IF of_kw[i].link = r.link
                      THEN [of_kw[i] EXCEPT !.is_duplicate = r.is_duplicate]
                      ELSE of_kw[i]]
            ELSE Append(of_kw, [link |-> r.link, is_duplicate |-> r.is_duplicate])]

\* conn.executemany applied to the first n parameter rows
RECURSIVE ExecuteManyNews(_, _, _)
ExecuteManyNews(rows, data, n) ==
    IF n = 0 THEN rows ELSE InsertNewsRow(ExecuteManyNews(rows, data, n - 1), data[n])

RECURSIVE ExecuteManyKeywords(_, _, _)
ExecuteManyKeywords(rows, data, n) ==
    IF n = 0 THEN rows ELSE InsertKeywordRow(ExecuteManyKeywords(rows, data, n - 1), data[n])

\* statements that take effect for every connection as soon as they run
\* (no transaction around the batch)
CommittedAutocommit(committed, work) == work

\* what other connections see after a statement ran inside an open
\* transaction: the committed tables, not the transaction's work
CommittedAfterWrite(committed, work) == committed

\* a failed batch whose rows so far are kept
AfterRollbackKept(committed, work) == work

\* what the store holds after the transaction was rolled back
AfterRollback(committed, work) == committed

Committed == [news |-> news, nk |-> news_keywords]

(***************************************************************************)
(* upsert_news                                                             *)
(***************************************************************************)
Hashes(its) == [i \in 1..Len(its) |-> calculate_title_hash(its[i].title)]
Range(f) == {f[i] : i \in DOMAIN f}

ClearLocals(t) ==
    /\ items' = [items EXCEPT ![t] = <<>>]
    /\ keyword' = [keyword EXCEPT ![t] = "AI"]
    /\ news_insert_data' = [news_insert_data EXCEPT ![t] = <<>>]
    /\ kw_insert_data' = [kw_insert_data EXCEPT ![t] = <<>>]
    /\ added_count' = [added_count EXCEPT ![t] = 0]
    /\ duplicate_count' = [duplicate_count EXCEPT ![t] = 0]

\* upsert_news(items, keyword) is called; "if not items: return 0, 0" ends
\* the call at once, otherwise the method goes on to
\* conn = self.get_connection().  The arguments are recorded in items and
\* keyword where the method first reads their content (USelect).
CallUpsert(t, empty) ==
    /\ pc[t] = "idle" /\ held[t] = NoConn
    /\ IF empty
         THEN /\ ret' = [ret EXCEPT ![t] = <<0, 0>>]
              /\ UNCHANGED <<pc, op>>
         ELSE /\ ret' = [ret EXCEPT ![t] = NoReturn]
              /\ pc' = [pc EXCEPT ![t] = "get_check"]
              /\ op' = [op EXCEPT ![t] = "upsert"]
    /\ UNCHANGED <<poolVars, conn, held, out, storeVars, items, keyword,
                   news_insert_data, kw_insert_data, added_count, duplicate_count>>
    /\ UNCHANGED <<startVars, clock, workerVars, appVars>>

\* the loop that builds prepared_items and hashes from the arguments its and
\* k, the existence query and the classification loop that follows it
USelect(t, its, k) ==
    /\ pc[t] = "u_select"
    /\ its # <<>>
    /\ items' = [items EXCEPT ![t] = its]
    /\ keyword' = [keyword EXCEPT ![t] = k]
    /\ LET hashes == Hashes(its)
           existing_hashes == ExistingHashes(k, Range(hashes), news, news_keywords)
           flags == DupFlags(hashes, existing_hashes)
       IN /\ news_insert_data' = [news_insert_data EXCEPT ![t] =
                 [i \in 1..Len(its) |->
                     [link |-> its[i].link,
                      title |-> its[i].title, title_hash |-> hashes[i],
                      pubDate_ts |-> PubDateTs(its[i])]]]
          /\ kw_insert_data' = [kw_insert_data EXCEPT ![t] =
                 [i \in 1..Len(its) |->
                     [link |-> its[i].link, keyword |-> k,
                      is_duplicate |-> IF flags[i] THEN 1 ELSE 0]]]
          /\ added_count' = [added_count EXCEPT ![t] = CountOf(flags, FALSE)]
          /\ duplicate_count' = [duplicate_count EXCEPT ![t] = CountOf(flags, TRUE)]
    /\ pc' = [pc EXCEPT ![t] = "u_ins_news"]
    /\ UNCHANGED <<poolVars, op, conn, held, out, storeVars, ret>>
    /\ UNCHANGED <<startVars, clock, workerVars, appVars>>

\* the existence query raises sqlite3.Error
USelectError(t) ==
    /\ pc[t] = "u_select"
    /\ pc' = [pc EXCEPT ![t] = "u_rollback"]
    /\ UNCHANGED <<poolVars, op, conn, held, out, dbVars>>
    /\ UNCHANGED <<startVars, clock, workerVars, appVars>>

\* executemany(INSERT INTO news ...): the first INSERT opens the transaction
\* and takes the store's write lock
UInsertNews(t) ==
    /\ pc[t] = "u_ins_news"
    /\ writer = 0
    /\ writer' = t
    /\ LET work == [news |-> ExecuteManyNews(news, news_insert_data[t], Len(news_insert_data[t])),
                    nk |-> news_keywords]
       IN /\ txn' = [txn EXCEPT ![t] = work]
          /\ news' = CommittedAfterWrite(Committed, work).news
          /\ news_keywords' = CommittedAfterWrite(Committed, work).nk
    /\ pc' = [pc EXCEPT ![t] = "u_ins_kw"]
    /\ UNCHANGED <<poolVars, op, conn, held, out, upsertVars>>
    /\ UNCHANGED <<startVars, clock, workerVars, appVars>>

\* the first executemany raises sqlite3.Error: after n rows, or because the
\* write lock stayed busy for the whole busy_timeout
UInsertNewsError(t) ==
    /\ pc[t] = "u_ins_news"
    /\ IF writer = 0
         THEN \E n \in 0..(Len(news_insert_data[t]) - 1) :
                LET work == [news |-> ExecuteManyNews(news, news_insert_data[t], n),
                             nk |-> news_keywords]
                IN /\ writer' = t
                   /\ txn' = [txn EXCEPT ![t] = work]
                   /\ news' = CommittedAfterWrite(Committed, work).news
                   /\ news_keywords' = CommittedAfterWrite(Committed, work).nk
         ELSE UNCHANGED storeVars
    /\ pc' = [pc EXCEPT ![t] = "u_rollback"]
    /\ UNCHANGED <<poolVars, op, conn, held, out, upsertVars>>
    /\ UNCHANGED <<startVars, clock, workerVars, appVars>>

\* executemany(INSERT INTO news_keywords ...)
UInsertKeywords(t) ==
    /\ pc[t] = "u_ins_kw"
    /\ LET work == [txn[t] EXCEPT !.nk =
                      ExecuteManyKeywords(txn[t].nk, kw_insert_data[t], Len(kw_insert_data[t]))]
       IN /\ txn' = [txn EXCEPT ![t] = work]
          /\ news' = CommittedAfterWrite(Committed, work).news
          /\ news_keywords' = CommittedAfterWrite(Committed, work).nk
    /\ pc' = [pc EXCEPT ![t] = "u_commit"]
    /\ UNCHANGED <<poolVars, op, conn, held, out, writer, upsertVars>>
    /\ UNCHANGED <<startVars, clock, workerVars, appVars>>

\* the second executemany raises sqlite3.Error after n rows
UInsertKeywordsError(t) ==
    /\ pc[t] = "u_ins_kw"
    /\ \E n \in 0..(Len(kw_insert_data[t]) - 1) :
         LET work == [txn[t] EXCEPT !.nk = ExecuteManyKeywords(txn[t].nk, kw_insert_data[t], n)]
         IN /\ txn' = [txn EXCEPT ![t] = work]
            /\ news' = CommittedAfterWrite(Committed, work).news
            /\ news_keywords' = CommittedAfterWrite(Committed, work).nk
    /\ pc' = [pc EXCEPT ![t] = "u_rollback"]
    /\ UNCHANGED <<poolVars, op, conn, held, out, writer, upsertVars>>
    /\ UNCHANGED <<startVars, clock, workerVars, appVars>>

\* leaving "with conn:" normally commits; return added_count, duplicate_count;
\* the finally block then returns the connection
UCommit(t) ==
    /\ pc[t] = "u_commit"
    /\ news' = txn[t].news
    /\ news_keywords' = txn[t].nk
    /\ writer' = 0
    /\ txn' = [txn EXCEPT ![t] = EmptyTxn]
    /\ ret' = [ret EXCEPT ![t] = <<added_count[t], duplicate_count[t]>>]
    /\ ClearLocals(t)
    /\ pc' = [pc EXCEPT ![t] = "ret_emerg"]
    /\ UNCHANGED <<poolVars, op, conn, held, out>>
    /\ UNCHANGED <<startVars, clock, workerVars, appVars>>

\* the commit itself raises sqlite3.Error
UCommitError(t) ==
    /\ pc[t] = "u_commit"
    /\ pc' = [pc EXCEPT ![t] = "u_rollback"]
    /\ UNCHANGED <<poolVars, op, conn, held, out, dbVars>>
    /\ UNCHANGED <<startVars, clock, workerVars, appVars>>

\* "with conn:" is left by an exception and rolls back; except sqlite3.Error
\* returns 0, 0; the finally block then returns the connection
URollback(t) ==
    /\ pc[t] = "u_rollback"
    /\ IF writer = t
         THEN /\ news' = AfterRollback(Committed, txn[t]).news
              /\ news_keywords' = AfterRollback(Committed, txn[t]).nk
              /\ writer' = 0
              /\ txn' = [txn EXCEPT ![t] = EmptyTxn]
         ELSE UNCHANGED storeVars
    /\ ret' = [ret EXCEPT ![t] = <<0, 0>>]
    /\ ClearLocals(t)
    /\ pc' = [pc EXCEPT ![t] = "ret_emerg"]
    /\ UNCHANGED <<poolVars, op, conn, held, out>>
    /\ UNCHANGED <<startVars, clock, workerVars, appVars>>

(***************************************************************************)
(* delete_old_news, delete_all_news, mark_all_as_read and update_status:   *)
(* conn = self.get_connection(), one statement inside "with conn:", and    *)
(* return_connection in the finally block.                                 *)
(***************************************************************************)
MaxClock == 1
MaxDays == 1
\* ALLOWED_UPDATE_FIELDS without is_duplicate, a legacy column of news the
\* model does not keep
UpdateFields == {"is_read", "is_bookmarked", "notes"}

\* a store whose connections run without PRAGMA foreign_keys=ON
CascadeOff(nkRows, newsRows) == nkRows

\* FOREIGN KEY (link) REFERENCES news(link) ON DELETE CASCADE, enforced
\* because _create_connection sets PRAGMA foreign_keys=ON: the associations
\* of deleted articles go with them
Cascade(nkRows, newsRows) ==
    [k \in Keywords |-> SelectSeq(nkRows[k], LAMBDA a : \E n \in newsRows : n.link = a.link)]

\* a second tick of the clock
Tick ==
    /\ clock < MaxClock
    /\ clock' = clock + 1
    /\ UNCHANGED <<startVars, poolVars, thrVars, dbVars, workerVars, appVars>>

\* what a one-statement operation hands back when it returns
StatementReturn(name, value) == <<name, "returns", value>>

\* a data operation is called; update_status first tests the field against
\* ALLOWED_UPDATE_FIELDS and returns False without a connection
CallStatement(t, name, allowed) ==
    /\ pc[t] = "idle" /\ held[t] = NoConn
    /\ name \in StatementOps
    /\ IF name = "update_status" /\ ~allowed
         THEN /\ ret' = [ret EXCEPT ![t] = StatementReturn(name, FALSE)]
              /\ UNCHANGED <<pc, op>>
         ELSE /\ ret' = [ret EXCEPT ![t] = NoReturn]
              /\ pc' = [pc EXCEPT ![t] = "get_check"]
              /\ op' = [op EXCEPT ![t] = name]
    /\ UNCHANGED <<poolVars, conn, held, out, storeVars, items, keyword,
                   news_insert_data, kw_insert_data, added_count, duplicate_count>>
    /\ UNCHANGED <<startVars, clock, workerVars, appVars>>

\* the statement of the operation runs: it opens the transaction, takes the
\* store's write lock and leaves the tables work
StatementRuns(t, name, work) ==
    /\ pc[t] = "x_exec"
    /\ op[t] = name
    /\ writer = 0
    /\ writer' = t
    /\ txn' = [txn EXCEPT ![t] = work]
    /\ news' = CommittedAfterWrite(Committed, work).news
    /\ news_keywords' = CommittedAfterWrite(Committed, work).nk
    /\ pc' = [pc EXCEPT ![t] = "x_commit"]
    /\ UNCHANGED <<poolVars, op, conn, held, out, upsertVars>>
    /\ UNCHANGED <<startVars, clock, workerVars, appVars>>

\* cutoff = (datetime.now() - timedelta(days=days)).timestamp();
\* DELETE FROM news WHERE is_bookmarked=0 AND pubDate_ts < cutoff
DeleteOldNews(t, days) ==
    LET cutoff == clock - days
        kept == {n \in news : ~(n.is_bookmarked = 0 /\ n.pubDate_ts < cutoff)}
    IN  StatementRuns(t, "delete_old_news",
                      [news |-> kept, nk |-> Cascade(news_keywords, kept)])

\* DELETE FROM news WHERE is_bookmarked=0
DeleteAllNews(t) ==
    LET kept == {n \in news : ~(n.is_bookmarked = 0)}
    IN  StatementRuns(t, "delete_all_news",
                      [news |-> kept, nk |-> Cascade(news_keywords, kept)])

\* UPDATE news SET is_read=1 WHERE is_bookmarked=1 AND is_read=0, or
\* ... WHERE is_read=0 AND link IN (SELECT link FROM news_keywords WHERE keyword=?)
MarkAllAsRead(t, k, only_bookmark) ==
    LET hit(n) == /\ n.is_read = 0
                  /\ IF only_bookmark THEN n.is_bookmarked = 1
                     ELSE \E i \in 1..Len(news_keywords[k]) : news_keywords[k][i].link = n.link
    IN  StatementRuns(t, "mark_all_as_read",
                      [news |-> {IF hit(n) THEN [n EXCEPT !.is_read = 1] ELSE n : n \in news},
                       nk |-> news_keywords])

\* UPDATE news SET {field} = ? WHERE link = ?
UpdateStatus(t, link, field, value) ==
    StatementRuns(t, "update_status",
                  [news |-> {IF n.link = link
                               THEN CASE field = "is_read" -> [n EXCEPT !.is_read = value]
                                      [] field = "is_bookmarked" -> [n EXCEPT !.is_bookmarked = value]
                                      [] OTHER -> [n EXCEPT !.notes = value]
                               ELSE n : n \in news},
                   nk |-> news_keywords])

\* the statement raises (the write lock stayed busy for the whole
\* busy_timeout, or another sqlite3.Error)
StatementError(t) ==
    /\ pc[t] = "x_exec"
    /\ pc' = [pc EXCEPT ![t] = "x_rollback"]
    /\ UNCHANGED <<poolVars, op, conn, held, out, dbVars>>
    /\ UNCHANGED <<startVars, clock, workerVars, appVars>>

\* cur.rowcount: the rows the statement deleted or changed
RowCount(t) == Cardinality(news \ txn[t].news)

\* leaving "with conn:" normally commits; the operation returns cur.rowcount
\* (update_status: True); the finally block then returns the connection
StatementCommit(t) ==
    /\ pc[t] = "x_commit"
    /\ news' = txn[t].news
    /\ news_keywords' = txn[t].nk
    /\ writer' = 0
    /\ txn' = [txn EXCEPT ![t] = EmptyTxn]
    /\ ret' = [ret EXCEPT ![t] = StatementReturn(op[t], IF op[t] = "update_status" THEN TRUE
                                                        ELSE RowCount(t))]
    /\ pc' = [pc EXCEPT ![t] = "ret_emerg"]
    /\ UNCHANGED <<poolVars, op, conn, held, out, items, keyword, news_insert_data,
                   kw_insert_data, added_count, duplicate_count>>
    /\ UNCHANGED <<startVars, clock, workerVars, appVars>>

\* the commit itself raises sqlite3.Error
StatementCommitError(t) ==
    /\ pc[t] = "x_commit"
    /\ pc' = [pc EXCEPT ![t] = "x_rollback"]
    /\ UNCHANGED <<poolVars, op, conn, held, out, dbVars>>
    /\ UNCHANGED <<startVars, clock, workerVars, appVars>>

\* "with conn:" is left by an exception and rolls back; the except block
\* returns 0 (update_status: False) and mark_all_as_read raises again; the
\* finally block then returns the connection
StatementRollback(t) ==
    /\ pc[t] = "x_rollback"
    /\ IF writer = t
         THEN /\ news' = AfterRollback(Committed, txn[t]).news
              /\ news_keywords' = AfterRollback(Committed, txn[t]).nk
              /\ writer' = 0
              /\ txn' = [txn EXCEPT ![t] = EmptyTxn]
         ELSE UNCHANGED storeVars
    /\ ret' = [ret EXCEPT ![t] = CASE op[t] = "mark_all_as_read" -> Raised
                                   [] op[t] = "update_status" -> StatementReturn(op[t], FALSE)
                                   [] OTHER -> StatementReturn(op[t], 0)]
    /\ pc' = [pc EXCEPT ![t] = "ret_emerg"]
    /\ UNCHANGED <<poolVars, op, conn, held, out, items, keyword, news_insert_data,
                   kw_insert_data, added_count, duplicate_count>>
    /\ UNCHANGED <<startVars, clock, workerVars, appVars>>

(***************************************************************************)
(* recalculate_duplicate_flags: the recalculation of section 4.2 of the    *)
(* specification.  The tests call it; core/database.py does not define it. *)
(***************************************************************************)
TitleHashOf(newsRows, l) == (CHOOSE n \in newsRows : n.link = l).title_hash

\* the flags of keyword k recomputed from scratch: in insertion order the
\* first row of each fingerprint is canonical, every later one a duplicate
RecalculatedRows(k, newsRows, nkRows) ==
    [i \in 1..Len(nkRows[k]) |->
        [nkRows[k][i] EXCEPT !.is_duplicate =
            IF \E j \in 1..(i - 1) :
                  TitleHashOf(newsRows, nkRows[k][j].link) = TitleHashOf(newsRows, nkRows[k][i].link)
              THEN 1 ELSE 0]]

recalculate_duplicate_flags(t, k) ==
    /\ pc[t] = "idle" /\ held[t] = NoConn
    /\ writer = 0
    /\ news_keywords' = [news_keywords EXCEPT ![k] = RecalculatedRows(k, news, news_keywords)]
    /\ news_keywords' # news_keywords
    /\ UNCHANGED <<poolVars, thrVars, news, writer, txn, upsertVars>>
    /\ UNCHANGED <<startVars, clock, workerVars, appVars>>

UpsertSteps(t) ==
    \/ \E empty \in BOOLEAN : CallUpsert(t, empty)
    \/ \E its \in Batches, k \in Keywords : USelect(t, its, k)
    \/ USelectError(t)
    \/ UInsertNews(t) \/ UInsertNewsError(t)
    \/ UInsertKeywords(t) \/ UInsertKeywordsError(t)
    \/ UCommit(t) \/ UCommitError(t) \/ URollback(t)

(***************************************************************************)
(* ApiWorker (core/workers.py).  The worker runs on a thread of its own and *)
(* persists through thread 1 of the DatabaseManager; stop() is called from *)
(* the controller thread.  Every signal goes through _safe_emit; terminal  *)
(* signals (finished, error) are recorded in events.                       *)
(***************************************************************************)
\* max_retries: int = 3
DefaultMaxRetries == 3
\* largest max_retries a worker is constructed with
MaxRetriesBound == 3

\* what session.get(...) can produce: a status code or an exception
Responses == {"200", "429", "other", "Timeout", "RequestException", "Exception"}
\* rate limit, timeout, connection failure: the outcomes run retries
TransientResponses == {"429", "Timeout", "RequestException"}
\* what resp.json() can produce on a 200 response
ParseOutcomes == {"ok", "RequestException", "Exception"}

ApiWorkerInit(m) ==
    /\ max_retries = m
    /\ is_running = TRUE
    /\ destroyed = FALSE
    /\ wpc = "new"
    /\ attempt = 0
    /\ wait_left = 0
    /\ sig = "none"
    /\ events = <<>>
    /\ spc = "idle"
    /\ requests = 0
    /\ after = "none"
    /\ result = <<>>
    /\ transient = TRUE
    /\ resp = "none"
    /\ witems = <<>>
    /\ raw_items = <<>>

\* property is_running: self._is_running and not self._destroyed
IsRunning == is_running /\ ~destroyed

\* for attempt in range(self.max_retries): the body runs once more
HasAttempt(a, m) == a < m
\* if attempt < self.max_retries - 1
CanRetry(a, m) == a < m - 1

\* _safe_emit: if not self._destroyed and self.is_running
EmitAllowed(d, r) == ~d /\ (r /\ ~d)

\* a response that is not 200 is retried after any status
RetryOnStatusAny(status, a, m) == CanRetry(a, m)
\* a response that is not 200 is retried: only status 429, and only while
\* attempts are left; every other status is an error at once
RetryOnStatus(status, a, m) == status = "429" /\ CanRetry(a, m)

\* run calls self._safe_emit(signal, ...) and goes on at position next
SafeEmitCall(kind, next) ==
    /\ sig' = kind
    /\ after' = next
    /\ wpc' = "emit"

\* the except clauses of run for an exception of the given kind
HandleException(kind) ==
    IF kind \in {"Timeout", "RequestException"} /\ CanRetry(attempt, max_retries)
      THEN SafeEmitCall("progress", "sleep")
      ELSE SafeEmitCall("error", "done")

\* run starts: if not self.is_running: return
Run ==
    /\ wpc = "new"
    /\ wpc' = IF IsRunning THEN "loop" ELSE "done"
    /\ UNCHANGED <<raw_items, witems, resp, transient, max_retries, is_running, destroyed, attempt, wait_left, sig, events, spc,
                   requests, after, result>>
    /\ UNCHANGED <<startVars, clock, poolVars, thrVars, dbVars, appVars>>

\* the head of the for loop, the cancellation check that opens its body and
\* the progress signal of the attempt
LoopTop ==
    /\ wpc = "loop"
    /\ IF HasAttempt(attempt, max_retries) /\ IsRunning
         THEN SafeEmitCall("progress", "request")
         ELSE /\ wpc' = "done"
              /\ UNCHANGED <<sig, after>>
    /\ UNCHANGED <<raw_items, witems, resp, transient, max_retries, is_running, destroyed, attempt, wait_left, events, spc,
                   requests, result>>
    /\ UNCHANGED <<startVars, clock, poolVars, thrVars, dbVars, appVars>>

\* session.get(...) answers or raises
Request(outcome) ==
    /\ wpc = "request"
    /\ requests' = requests + 1
    /\ resp' = outcome
    /\ transient' = (transient /\ outcome \in TransientResponses)
    /\ CASE outcome = "200" ->
              /\ wpc' = "parse"
              /\ UNCHANGED <<sig, after, wait_left>>
         [] outcome \in {"429", "other"} ->
              IF RetryOnStatus(outcome, attempt, max_retries)
                THEN /\ wait_left' = (attempt + 1) * 2
                     /\ SafeEmitCall("progress", "backoff")
                ELSE /\ SafeEmitCall("error", "done")
                     /\ UNCHANGED wait_left
         [] OTHER ->
              /\ HandleException(outcome)
              /\ UNCHANGED wait_left
    /\ UNCHANGED <<raw_items, witems, max_retries, is_running, destroyed, attempt, events, spc, result>>
    /\ UNCHANGED <<startVars, clock, poolVars, thrVars, dbVars, appVars>>

\* for _ in range(wait_time): if not self.is_running: return; time.sleep(1)
\* and the continue that follows the loop
Backoff ==
    /\ wpc = "backoff"
    /\ IF wait_left = 0
         THEN /\ attempt' = attempt + 1
              /\ wpc' = "loop"
              /\ UNCHANGED wait_left
         ELSE IF IsRunning
                THEN /\ wait_left' = wait_left - 1
                     /\ UNCHANGED <<wpc, attempt>>
                ELSE /\ wpc' = "done"
                     /\ UNCHANGED <<wait_left, attempt>>
    /\ UNCHANGED <<raw_items, witems, resp, transient, max_retries, is_running, destroyed, sig, events, spc, requests, after, result>>
    /\ UNCHANGED <<startVars, clock, poolVars, thrVars, dbVars, appVars>>

\* time.sleep(1); continue after a timeout or a network error
Sleep ==
    /\ wpc = "sleep"
    /\ attempt' = attempt + 1
    /\ wpc' = "loop"
    /\ UNCHANGED <<raw_items, witems, resp, transient, max_retries, is_running, destroyed, wait_left, sig, events, spc,
                   requests, after, result>>
    /\ UNCHANGED <<startVars, clock, poolVars, thrVars, dbVars, appVars>>

\* data = resp.json(); raw_items = data.get("items", []); items = []
Parse(outcome, its) ==
    /\ wpc = "parse"
    /\ IF outcome = "ok"
         THEN /\ raw_items' = its
              /\ witems' = <<>>
              /\ wpc' = "items"
              /\ UNCHANGED <<sig, after>>
         ELSE /\ HandleException(outcome)
              /\ UNCHANGED <<raw_items, witems>>
    /\ UNCHANGED <<resp, transient, max_retries, is_running, destroyed, attempt, wait_left, events, spc,
                   requests, result>>
    /\ UNCHANGED <<startVars, clock, poolVars, thrVars, dbVars, appVars>>

\* one pass of "for item in raw_items": "if not self.is_running: break", the
\* exclusion filter (should_exclude: continue) and items.append; when the
\* loop is over or was left by break, the progress signal that announces the
\* save
ParseItem(should_exclude) ==
    /\ wpc = "items"
    /\ IF raw_items = <<>> \/ ~IsRunning
         THEN /\ SafeEmitCall("progress", "upsert")
              /\ UNCHANGED <<raw_items, witems>>
         ELSE /\ raw_items' = Tail(raw_items)
              /\ witems' = IF should_exclude THEN witems ELSE Append(witems, Head(raw_items))
              /\ UNCHANGED <<wpc, sig, after>>
    /\ UNCHANGED <<resp, transient, max_retries, is_running, destroyed, attempt, wait_left, events, spc,
                   requests, result>>
    /\ UNCHANGED <<startVars, clock, poolVars, thrVars, dbVars, appVars>>

\* run goes on although upsert_news has not returned
UpsertReturnedEarly(p, r) == TRUE
\* the call self.db.upsert_news(...) made by run is over
UpsertReturned(p, r) == p = "idle" /\ r # NoReturn

\* added_count, dup_count = self.db.upsert_news(...) has returned or raised;
\* then the progress signal of the completion
UpsertReturn ==
    /\ wpc = "upsert"
    /\ UpsertReturned(pc[1], ret[1])
    /\ IF ret[1] = Raised
         THEN /\ HandleException("Exception")
              /\ UNCHANGED result
         ELSE /\ result' = ret[1]
              /\ SafeEmitCall("progress", "finish")
    /\ UNCHANGED <<raw_items, witems, resp, transient, max_retries, is_running, destroyed, attempt, wait_left, events, spc, requests>>
    /\ UNCHANGED <<startVars, clock, poolVars, thrVars, dbVars, appVars>>

\* self._safe_emit(self.finished, result); return
Finish ==
    /\ wpc = "finish"
    /\ SafeEmitCall("finished", "done")
    /\ UNCHANGED <<raw_items, witems, resp, transient, max_retries, is_running, destroyed, attempt, wait_left, events, spc,
                   requests, result>>
    /\ UNCHANGED <<startVars, clock, poolVars, thrVars, dbVars, appVars>>

\* _safe_emit: if not self._destroyed and self.is_running
SafeEmit ==
    /\ wpc = "emit"
    /\ IF EmitAllowed(destroyed, is_running)
         THEN /\ wpc' = "emitting"
              /\ UNCHANGED <<sig, after>>
         ELSE /\ wpc' = after
              /\ sig' = "none"
              /\ after' = "none"
    /\ UNCHANGED <<raw_items, witems, resp, transient, max_retries, is_running, destroyed, attempt, wait_left, events, spc,
                   requests, result>>
    /\ UNCHANGED <<startVars, clock, poolVars, thrVars, dbVars, appVars>>

\* signal.emit(value); the finished signal carries added_count and dup_count
Emit ==
    /\ wpc = "emitting"
    /\ events' = IF sig \in {"finished", "error"}
                   THEN Append(events, [kind |-> sig,
                                        counts |-> IF sig = "finished" THEN result ELSE <<>>])
                   ELSE events
    /\ wpc' = after
    /\ sig' = "none"
    /\ after' = "none"
    /\ UNCHANGED <<raw_items, witems, resp, transient, max_retries, is_running, destroyed, attempt, wait_left, spc, requests, result>>
    /\ UNCHANGED <<startVars, clock, poolVars, thrVars, dbVars, appVars>>

\* stop: self._destroyed = True
StopDestroy ==
    /\ spc = "idle"
    /\ destroyed' = TRUE
    /\ spc' = "set_running"
    /\ UNCHANGED <<raw_items, witems, resp, transient, max_retries, is_running, wpc, attempt, wait_left, sig, events,
                   requests, after, result>>
    /\ UNCHANGED <<startVars, clock, poolVars, thrVars, dbVars, appVars>>

\* stop: self.is_running = False
StopSetRunning ==
    /\ spc = "set_running"
    /\ is_running' = FALSE
    /\ spc' = "done"
    /\ UNCHANGED <<raw_items, witems, resp, transient, max_retries, destroyed, wpc, attempt, wait_left, sig, events,
                   requests, after, result>>
    /\ UNCHANGED <<startVars, clock, poolVars, thrVars, dbVars, appVars>>

(***************************************************************************)
(* Query parser (core/query_parser.py).  A raw tab keyword and every word  *)
(* taken from it is a sequence of characters.                              *)
(***************************************************************************)
KwA == <<"a">>
KwB == <<"-", "x", " ", "b", " ", "-">>
KwX == <<"-", "x">>
TabKeywords == {KwA, KwB, KwX}
OpenTabLists == {<<KwX>>, <<KwB, KwX, KwA>>}

\* raw.split(): the maximal runs of characters that are not whitespace
RECURSIVE Split(_)
Split(raw) ==
    IF raw = <<>> THEN <<>>
    ELSE IF IsSpace(Head(raw)) THEN Split(Tail(raw))
    ELSE LET rest == Split(Tail(raw))
         IN  IF Len(raw) > 1 /\ ~IsSpace(raw[2])
             THEN <<<<Head(raw)>> \o Head(rest)>> \o Tail(rest)
             ELSE <<<<Head(raw)>>>> \o rest

StartsWithDash(token) == Len(token) > 0 /\ token[1] = "-"

IsExcludeWordAlways(token) == TRUE

\* len(token) > 1: a bare marker carries no exclusion word
IsExcludeWord(token) == Len(token) > 1

RECURSIVE DbKeywordOf(_)
DbKeywordOf(parts) ==
    IF parts = <<>> THEN <<>>
    ELSE IF StartsWithDash(Head(parts)) THEN DbKeywordOf(Tail(parts))
    ELSE Head(parts)

RECURSIVE ExcludeWordsOf(_)
ExcludeWordsOf(parts) ==
    IF parts = <<>> THEN <<>>
    ELSE IF StartsWithDash(Head(parts)) /\ IsExcludeWord(Head(parts))
         THEN <<Tail(Head(parts))>> \o ExcludeWordsOf(Tail(parts))
    ELSE ExcludeWordsOf(Tail(parts))

parse_tab_query(raw) == <<DbKeywordOf(Split(raw)), ExcludeWordsOf(Split(raw))>>

has_positive_keyword(raw) == parse_tab_query(raw)[1] # <<>>

\* str.strip().lower() of a word; the words the parser yields carry no
\* whitespace, so strip() finds nothing to remove at their ends
LowerCase(word) == [i \in 1..Len(word) |-> Lower(word[i])]

\* code point order of the characters, as sorted() compares them
CharRank(ch) ==
    CASE ch = "-" -> 1 [] ch = "A" -> 2 [] ch = "B" -> 3 [] ch = "C" -> 4
      [] ch = "a" -> 5 [] ch = "b" -> 6 [] ch = "c" -> 7 [] ch = "x" -> 8
      [] ch = "|" -> 9 [] OTHER -> 0

RECURSIVE WordLess(_, _)
WordLess(u, v) ==
    IF v = <<>> THEN FALSE
    ELSE IF u = <<>> THEN TRUE
    ELSE IF Head(u) = Head(v) THEN WordLess(Tail(u), Tail(v))
    ELSE CharRank(Head(u)) < CharRank(Head(v))

\* sorted(words) of a set of words
RECURSIVE SortedWords(_)
SortedWords(words) ==
    IF words = {} THEN <<>>
    ELSE LET least == CHOOSE w \in words : \A o \in words : o = w \/ WordLess(w, o)
         IN  <<least>> \o SortedWords(words \ {least})

\* sep.join(words)
RECURSIVE Join(_, _)
Join(words, sep) ==
    IF words = <<>> THEN <<>>
    ELSE IF Len(words) = 1 THEN Head(words)
    ELSE Head(words) \o sep \o Join(Tail(words), sep)

\* f"{normalized_keyword}|{'|'.join(normalized_excludes)}"
build_fetch_key(search_keyword, exclude_words) ==
    LET normalized_excludes ==
            SortedWords({LowerCase(exclude_words[i]) :
                            i \in {j \in 1..Len(exclude_words) : exclude_words[j] # <<>>}})
    IN  LowerCase(search_keyword) \o <<"|">> \o Join(normalized_excludes, <<"|">>)

FetchKeyOf(kw) == build_fetch_key(parse_tab_query(kw)[1], parse_tab_query(kw)[2])

(***************************************************************************)
(* Dictionaries: functions whose domain is the set of keys present.        *)
(***************************************************************************)
Put(d, k, v) == [x \in (DOMAIN d) \cup {k} |-> IF x = k THEN v ELSE d[x]]
Pop(d, k) == [x \in (DOMAIN d) \ {k} |-> d[x]]
Has(d, k) == k \in DOMAIN d
EmptyDict == <<>>
None == 0

(***************************************************************************)
(* WorkerRegistry (core/worker_registry.py)                                *)
(***************************************************************************)
\* register: returns the two dictionaries after the call
RegisterHandles(handles, request_id, tab_keyword) == Put(handles, request_id, tab_keyword)
RegisterActiveSingle(active, request_id, tab_keyword) ==
    [k \in {tab_keyword} |-> request_id]

RegisterActive(active, request_id, tab_keyword) == Put(active, tab_keyword, request_id)

get_active_request_id(active, tab_keyword) ==
    IF Has(active, tab_keyword) THEN active[tab_keyword] ELSE None

is_active(active, tab_keyword, request_id) ==
    get_active_request_id(active, tab_keyword) = request_id

\* get_active_handle: the request id of the handle, None when there is none
get_active_handle(handles, active, tab_keyword) ==
    LET rid == get_active_request_id(active, tab_keyword)
    IN  IF rid # None /\ Has(handles, rid) THEN rid ELSE None

PopClearsActiveNever(handles, active, request_id) == FALSE

PopClearsActive(handles, active, request_id) ==
    get_active_request_id(active, handles[request_id]) = request_id

\* pop_by_request_id: the two dictionaries after the call
PopHandles(handles, request_id) == Pop(handles, request_id)
PopActive(handles, active, request_id) ==
    IF ~Has(handles, request_id) THEN active
    ELSE IF PopClearsActive(handles, active, request_id)
         THEN Pop(active, handles[request_id])
    ELSE active

(***************************************************************************)
(* MainApp (ui/main_window.py): request dispatch, completion handlers,     *)
(* teardown and the sequential refresh cycle.  Handlers run on the         *)
(* controller thread, one at a time (mpc); workers run on threads of their *)
(* own and reach the controller through queued slot calls (queue).         *)
(***************************************************************************)
PageSize == 100
ApiCeiling == 1000
MaxNetworkErrors == 3
MaxRequests == 3
MaxCycles == 2
SavedCounts == {0, ApiCeiling}
StoredCount == 250
PagingCounts == {0, StoredCount, ApiCeiling - 1, ApiCeiling}
Counts == {<<1, 2>>}

NoCtx == [keyword |-> <<>>, is_more |-> FALSE, is_sequential |-> FALSE,
          saved_count |-> 0, start_idx |-> 0, cleaning |-> None, ret |-> "idle",
          auto |-> FALSE]

MainAppInit(open_tabs) ==
    /\ tabs = open_tabs
    /\ worker_request_seq = 0
    /\ handles_by_request_id = EmptyDict
    /\ active_request_id_by_tab_keyword = EmptyDict
    /\ request_start_index = EmptyDict
    /\ workers = EmptyDict
    /\ tab_fetch_state = [k \in {open_tabs[i] : i \in 1..Len(open_tabs)} |-> 0]
    /\ last_fetch_request_ts = {}
    /\ network_error_count = 0
    /\ network_available = TRUE
    /\ reloaded = EmptyDict
    /\ loading = {}
    /\ sequential_refresh_active = FALSE
    /\ current_refresh_idx = 0
    /\ pending_refresh_keywords = <<>>
    /\ total_refresh_count = 0
    /\ sequential_added_count = 0
    /\ sequential_dup_count = 0
    /\ refresh_in_progress = FALSE
    /\ timers = 0
    /\ dispatched = <<>>
    /\ completions = 0
    /\ last_return = "none"
    /\ req = EmptyDict
    /\ queue = <<>>
    /\ mpc = "idle"
    /\ ctx = NoCtx

OpenTabs == {tabs[i] : i \in 1..Len(tabs)}

IsActiveWorkerRequestAlways(kw, request_id) == TRUE

\* _is_active_worker_request
IsActiveWorkerRequest(kw, request_id) ==
    IF request_id = None THEN TRUE
    ELSE is_active(active_request_id_by_tab_keyword, kw, request_id)

ResolveByKeyword(kw, request_id) ==
    get_active_request_id(active_request_id_by_tab_keyword, kw)

\* cleanup_worker, the request it is about
ResolveRequestId(kw, request_id) ==
    IF request_id = None /\ kw # <<>>
    THEN get_active_request_id(active_request_id_by_tab_keyword, kw)
    ELSE request_id

WaitReturnsOnlyWhenFinished(thread, timed_out) == thread = "finished"

\* QThread.wait(1000): returns when the thread has finished or the time is up
WaitReturns(thread, timed_out) == thread = "finished" \/ timed_out

\* cleanup_worker up to thread.wait: c holds the locals of the calling handler,
\* next is where the controller continues after cleanup_worker returns.
CleanupWorker(kw, request_id, only_if_active, c, next) ==
    LET rid == ResolveRequestId(kw, request_id)
    IN  IF \/ rid = None
           \/ ~Has(handles_by_request_id, rid)
           \/ (only_if_active /\ kw # <<>>
               /\ ~is_active(active_request_id_by_tab_keyword, kw, rid))
        THEN /\ mpc' = next
             /\ ctx' = c
             /\ UNCHANGED <<handles_by_request_id, active_request_id_by_tab_keyword, req>>
        ELSE /\ handles_by_request_id' = PopHandles(handles_by_request_id, rid)
             /\ active_request_id_by_tab_keyword' =
                    PopActive(handles_by_request_id, active_request_id_by_tab_keyword, rid)
             /\ req' = [req EXCEPT ![rid].connected = FALSE, ![rid].stopped = TRUE,
                                   ![rid].quit = TRUE]
             /\ mpc' = "cleanup_wait"
             /\ ctx' = [c EXCEPT !.cleaning = rid, !.ret = next]

\* cleanup_worker from thread.wait on
CleanupWaitOver ==
    /\ mpc = "cleanup_wait"
    /\ \E timed_out \in BOOLEAN : WaitReturns(req[ctx.cleaning].thread, timed_out)
    /\ workers' = Pop(workers, req[ctx.cleaning].keyword)
    /\ request_start_index' = Pop(request_start_index, ctx.cleaning)
    /\ mpc' = ctx.ret
    /\ ctx' = [ctx EXCEPT !.cleaning = None, !.ret = "idle"]
    /\ UNCHANGED <<worker_request_seq, handles_by_request_id, active_request_id_by_tab_keyword>>
    /\ UNCHANGED <<fetchVars, cycleVars, tabs, req, queue>>
    /\ UNCHANGED <<startVars, clock, poolVars, thrVars, dbVars, workerVars>>

\* _on_sequential_fetch_done: _current_refresh_idx and the pending timers after the call
SeqIdxSkips == IF sequential_refresh_active THEN current_refresh_idx + 2 ELSE current_refresh_idx
SeqIdxAfter == IF sequential_refresh_active THEN current_refresh_idx + 1 ELSE current_refresh_idx
SeqTimersTwice == IF sequential_refresh_active THEN timers + 2 ELSE timers
SeqTimersAfter == IF sequential_refresh_active THEN timers + 1 ELSE timers

\* fetch_news, start_idx of the request
\* the start offset without the floor at the second page
StartIndexNoFloor(kw, is_more, saved_count) ==
    LET last == IF Has(tab_fetch_state, kw) THEN tab_fetch_state[kw] ELSE 0
        by_count == 1 + ((saved_count \div PageSize) * PageSize)
    IN  IF ~is_more THEN 1
        ELSE IF last > 0 THEN last + PageSize
        ELSE by_count

StartIndex(kw, is_more, saved_count) ==
    LET last == IF Has(tab_fetch_state, kw) THEN tab_fetch_state[kw] ELSE 0
        by_count == 1 + ((saved_count \div PageSize) * PageSize)
    IN  IF ~is_more THEN 1
        ELSE IF last > 0 THEN last + PageSize
        ELSE IF by_count <= 1 THEN PageSize + 1
        ELSE by_count

\* a start offset the API never serves
ExceedsCeilingNever(start_idx) == FALSE

\* if start_idx > 1000
ExceedsCeiling(start_idx) == start_idx > ApiCeiling

\* what fetch_news leaves alone up to the construction of the worker
FetchNewsFrame ==
    /\ UNCHANGED <<worker_request_seq, request_start_index, workers>>
    /\ UNCHANGED <<network_error_count, network_available, reloaded, loading>>
    /\ UNCHANGED <<sequential_refresh_active, pending_refresh_keywords, total_refresh_count,
                   sequential_added_count, sequential_dup_count, refresh_in_progress,
                   dispatched, completions, last_return>>
    /\ UNCHANGED <<tabs, queue>>
    /\ UNCHANGED <<startVars, clock, poolVars, thrVars, dbVars, workerVars>>

\* the dedupe window applied to every caller
DedupedAnyCaller(is_more, is_sequential, fetch_key) == fetch_key \in last_fetch_request_ts

\* if (not is_more) and (not is_sequential), and the last manual dispatch of
\* the fetch key is less than the window length old
Deduped(is_more, is_sequential, fetch_key) ==
    ~is_more /\ ~is_sequential /\ fetch_key \in last_fetch_request_ts

\* fetch_news up to the construction of the worker; saved_count is what
\* db.get_counts(search_keyword) returns, read only by a load-more of a tab
\* that has no recorded offset.  The information dialog of a refused
\* load-more is modal: the handler stays in it until it is closed.
FetchNews(kw, is_more, is_sequential, saved_count) ==
    LET search_keyword == parse_tab_query(kw)[1]
        fetch_key == FetchKeyOf(kw)
        deduped == Deduped(is_more, is_sequential, fetch_key)
        start_idx == StartIndex(kw, is_more, saved_count)
        count_read == is_more /\ (Has(tab_fetch_state, kw) => tab_fetch_state[kw] = 0)
        c == [keyword |-> kw, is_more |-> is_more, is_sequential |-> is_sequential,
              saved_count |-> IF count_read THEN saved_count ELSE 0,
              start_idx |-> start_idx, cleaning |-> None, ret |-> "idle", auto |-> FALSE]
        old_handle == get_active_handle(handles_by_request_id,
                                        active_request_id_by_tab_keyword, kw)
    IN  /\ FetchNewsFrame
        /\ IF search_keyword = <<>> \/ deduped
           THEN /\ mpc' = "idle"
                /\ ctx' = NoCtx
                /\ UNCHANGED <<last_fetch_request_ts, tab_fetch_state, current_refresh_idx, timers,
                               handles_by_request_id, active_request_id_by_tab_keyword, req>>
           ELSE /\ last_fetch_request_ts' =
                       IF ~is_more /\ ~is_sequential
                       THEN last_fetch_request_ts \cup {fetch_key}
                       ELSE last_fetch_request_ts
                /\ tab_fetch_state' =
                       IF Has(tab_fetch_state, kw) THEN tab_fetch_state
                       ELSE Put(tab_fetch_state, kw, 0)
                /\ IF is_more /\ ExceedsCeiling(start_idx)
                   THEN /\ mpc' = "ceiling_dialog"
                        /\ ctx' = c
                        /\ UNCHANGED <<current_refresh_idx, timers, handles_by_request_id,
                                       active_request_id_by_tab_keyword, req>>
                   ELSE /\ UNCHANGED <<current_refresh_idx, timers>>
                        /\ IF old_handle # None
                           THEN CleanupWorker(kw, old_handle, TRUE, c, "register")
                           ELSE /\ mpc' = "register"
                                /\ ctx' = c
                                /\ UNCHANGED <<handles_by_request_id,
                                               active_request_id_by_tab_keyword, req>>

\* the information dialog is closed: fetch_news returns without a worker
CeilingDialogClosed ==
    /\ mpc = "ceiling_dialog"
    /\ current_refresh_idx' = IF ctx.is_sequential THEN SeqIdxAfter ELSE current_refresh_idx
    /\ timers' = IF ctx.is_sequential THEN SeqTimersAfter ELSE timers
    /\ mpc' = "idle"
    /\ ctx' = NoCtx
    /\ UNCHANGED <<registryVars, fetchVars, tabs, req, queue>>
    /\ UNCHANGED <<sequential_refresh_active, pending_refresh_keywords, total_refresh_count,
                   sequential_added_count, sequential_dup_count, refresh_in_progress,
                   dispatched, completions, last_return>>
    /\ UNCHANGED <<startVars, clock, poolVars, thrVars, dbVars, workerVars>>

\* fetch_news from the construction of the worker to thread.start()
FetchNewsRegister ==
    /\ mpc = "register"
    /\ LET request_id == worker_request_seq + 1
       IN  /\ worker_request_seq' = request_id
           /\ request_start_index' = Put(request_start_index, request_id, ctx.start_idx)
           /\ handles_by_request_id' = RegisterHandles(handles_by_request_id, request_id, ctx.keyword)
           /\ active_request_id_by_tab_keyword' =
                  RegisterActive(active_request_id_by_tab_keyword, request_id, ctx.keyword)
           /\ workers' = Put(workers, ctx.keyword, request_id)
           /\ req' = Put(req, request_id,
                         [keyword |-> ctx.keyword,
                          search_keyword |-> parse_tab_query(ctx.keyword)[1],
                          exclude_words |-> parse_tab_query(ctx.keyword)[2],
                          start_idx |-> ctx.start_idx, is_more |-> ctx.is_more,
                          is_sequential |-> ctx.is_sequential, run |-> "running",
                          connected |-> TRUE, stopped |-> FALSE, quit |-> FALSE,
                          thread |-> "running", completed |-> FALSE])
    /\ loading' = IF ctx.keyword \in OpenTabs THEN loading \cup {ctx.keyword} ELSE loading
    /\ dispatched' = IF ctx.is_sequential THEN Append(dispatched, ctx.keyword) ELSE dispatched
    /\ mpc' = "idle"
    /\ ctx' = NoCtx
    /\ UNCHANGED <<tab_fetch_state, last_fetch_request_ts, network_error_count,
                   network_available, reloaded>>
    /\ UNCHANGED <<sequential_refresh_active, current_refresh_idx, pending_refresh_keywords,
                   total_refresh_count, sequential_added_count, sequential_dup_count,
                   refresh_in_progress, timers, completions, last_return>>
    /\ UNCHANGED <<tabs, queue>>
    /\ UNCHANGED <<startVars, clock, poolVars, thrVars, dbVars, workerVars>>

\* the except branch of _process_next_refresh without its step forward
RaiseIdxSame == current_refresh_idx

\* self._current_refresh_idx += 1 in the except branch of _process_next_refresh
RaiseIdxAfter == current_refresh_idx + 1

\* fetch_news raises while it builds the worker and its thread: the button
\* of the tab is already disabled and nothing is registered; the exception
\* is caught by _process_next_refresh in a sequential step and leaves the
\* slot otherwise
FetchNewsRaises ==
    /\ mpc = "register"
    /\ loading' = IF ctx.keyword \in OpenTabs THEN loading \cup {ctx.keyword} ELSE loading
    /\ current_refresh_idx' = IF ctx.is_sequential THEN RaiseIdxAfter ELSE current_refresh_idx
    /\ timers' = IF ctx.is_sequential THEN timers + 1 ELSE timers
    /\ mpc' = "idle"
    /\ ctx' = NoCtx
    /\ UNCHANGED <<registryVars, tab_fetch_state, last_fetch_request_ts, network_error_count,
                   network_available, reloaded>>
    /\ UNCHANGED <<sequential_refresh_active, pending_refresh_keywords, total_refresh_count,
                   sequential_added_count, sequential_dup_count, refresh_in_progress,
                   dispatched, completions, last_return>>
    /\ UNCHANGED <<tabs, req, queue>>
    /\ UNCHANGED <<startVars, clock, poolVars, thrVars, dbVars, workerVars>>

\* the callers of fetch_news outside the cycle: the context menu and a new or
\* renamed tab (is_more = FALSE), the load-more button of a tab (is_more = TRUE)
UserFetch(kw, is_more, saved_count) ==
    /\ mpc = "idle"
    /\ worker_request_seq < MaxRequests
    /\ kw \in OpenTabs
    /\ is_more => kw \notin loading
    /\ FetchNews(kw, is_more, FALSE, saved_count)

\* the dedupe window of a fetch key elapses
WindowElapses(fetch_key) ==
    /\ fetch_key \in last_fetch_request_ts
    /\ last_fetch_request_ts' = last_fetch_request_ts \ {fetch_key}
    /\ UNCHANGED <<tab_fetch_state, network_error_count, network_available, reloaded, loading>>
    /\ UNCHANGED <<registryVars, cycleVars, runVars>>
    /\ UNCHANGED <<startVars, clock, poolVars, thrVars, dbVars, workerVars>>

(***************************************************************************)
(* The worker and its thread, as the controller sees them: run() ends with *)
(* one terminal signal, which reaches the controller only while the        *)
(* signals are connected (run = "emitted"; "returned" otherwise); the       *)
(* thread ends after run() once quit was asked.                            *)
(***************************************************************************)
Outcomes ==
    {[kind |-> "done", added |-> c[1], dup |-> c[2], net |-> FALSE] : c \in Counts}
    \cup {[kind |-> "error", added |-> 0, dup |-> 0, net |-> n] : n \in BOOLEAN}

WorkerTerminal(rid, o) ==
    /\ Has(req, rid)
    /\ req[rid].run = "running"
    /\ req' = [req EXCEPT ![rid].run = IF req[rid].connected THEN "emitted" ELSE "returned"]
    /\ queue' = IF req[rid].connected
                THEN Append(queue, [kind |-> o.kind, rid |-> rid, added |-> o.added,
                                    dup |-> o.dup, net |-> o.net])
                ELSE queue
    /\ UNCHANGED <<registryVars, fetchVars, cycleVars, tabs, mpc, ctx>>
    /\ UNCHANGED <<startVars, clock, poolVars, thrVars, dbVars, workerVars>>

ThreadFinish(rid) ==
    /\ Has(req, rid)
    /\ req[rid].thread = "running"
    /\ req[rid].run \in {"emitted", "returned"}
    /\ req[rid].quit
    /\ req' = [req EXCEPT ![rid].thread = "finished"]
    /\ queue' = Append(queue, [kind |-> "thread_finished", rid |-> rid, added |-> 0,
                               dup |-> 0, net |-> FALSE])
    /\ UNCHANGED <<registryVars, fetchVars, cycleVars, tabs, mpc, ctx>>
    /\ UNCHANGED <<startVars, clock, poolVars, thrVars, dbVars, workerVars>>

\* the start offset on_fetch_done records, moved one page on
CompletedStartIndexNext(request_id) == request_start_index[request_id] + PageSize

\* completed_start_idx = self._request_start_index.get(request_id)
CompletedStartIndex(request_id) == request_start_index[request_id]

(***************************************************************************)
(* Queued slot calls delivered by the controller's event loop              *)
(***************************************************************************)
\* worker.finished: on_fetch_done, then thread.quit
OnFetchDone ==
    /\ mpc = "idle"
    /\ queue # <<>>
    /\ Head(queue).kind = "done"
    /\ LET e == Head(queue)
           request_id == e.rid
           kw == req[request_id].keyword
           is_sequential == req[request_id].is_sequential
       IN  /\ queue' = Tail(queue)
           /\ req' = [req EXCEPT ![request_id].quit = TRUE,
                                 ![request_id].completed =
                                     IsActiveWorkerRequest(kw, request_id)]
           /\ IF ~IsActiveWorkerRequest(kw, request_id)
              THEN UNCHANGED <<fetchVars, cycleVars>>
              ELSE /\ tab_fetch_state' =
                          IF Has(request_start_index, request_id)
                          THEN Put(tab_fetch_state, kw, CompletedStartIndex(request_id))
                          ELSE tab_fetch_state
                   /\ reloaded' = IF kw \in OpenTabs THEN Put(reloaded, kw, request_id)
                                  ELSE reloaded
                   /\ loading' = loading \ {kw}
                   /\ sequential_added_count' =
                          IF is_sequential THEN sequential_added_count + e.added
                          ELSE sequential_added_count
                   /\ sequential_dup_count' =
                          IF is_sequential THEN sequential_dup_count + e.dup
                          ELSE sequential_dup_count
                   /\ current_refresh_idx' =
                          IF is_sequential THEN SeqIdxAfter ELSE current_refresh_idx
                   /\ timers' = IF is_sequential THEN SeqTimersAfter ELSE timers
                   /\ network_error_count' = 0
                   /\ network_available' = TRUE
                   /\ UNCHANGED <<last_fetch_request_ts, sequential_refresh_active,
                                  pending_refresh_keywords, total_refresh_count,
                                  refresh_in_progress, dispatched, completions, last_return>>
    /\ UNCHANGED <<registryVars, tabs, mpc, ctx>>
    /\ UNCHANGED <<startVars, clock, poolVars, thrVars, dbVars, workerVars>>

\* on_fetch_done of the active request raises while it updates the tab
\* (result['total'], load_data_from_db): the offset is recorded already, the
\* button, the counters and the network fields are not reached, and the
\* except branch calls _on_sequential_fetch_done for a sequential request
OnFetchDoneRaises ==
    /\ mpc = "idle"
    /\ queue # <<>>
    /\ Head(queue).kind = "done"
    /\ LET e == Head(queue)
           request_id == e.rid
           kw == req[request_id].keyword
           is_sequential == req[request_id].is_sequential
       IN  /\ IsActiveWorkerRequest(kw, request_id)
           /\ kw \in OpenTabs
           /\ queue' = Tail(queue)
           /\ req' = [req EXCEPT ![request_id].quit = TRUE, ![request_id].completed = TRUE]
           /\ tab_fetch_state' =
                  IF Has(request_start_index, request_id)
                  THEN Put(tab_fetch_state, kw, CompletedStartIndex(request_id))
                  ELSE tab_fetch_state
           /\ current_refresh_idx' = IF is_sequential THEN SeqIdxAfter ELSE current_refresh_idx
           /\ timers' = IF is_sequential THEN SeqTimersAfter ELSE timers
    /\ UNCHANGED <<last_fetch_request_ts, network_error_count, network_available, reloaded,
                   loading>>
    /\ UNCHANGED <<sequential_refresh_active, pending_refresh_keywords, total_refresh_count,
                   sequential_added_count, sequential_dup_count, refresh_in_progress,
                   dispatched, completions, last_return>>
    /\ UNCHANGED <<registryVars, tabs, mpc, ctx>>
    /\ UNCHANGED <<startVars, clock, poolVars, thrVars, dbVars, workerVars>>

\* worker.error: on_fetch_error, then thread.quit
OnFetchError ==
    /\ mpc = "idle"
    /\ queue # <<>>
    /\ Head(queue).kind = "error"
    /\ LET e == Head(queue)
           request_id == e.rid
           kw == req[request_id].keyword
           is_sequential == req[request_id].is_sequential
       IN  /\ queue' = Tail(queue)
           /\ req' = [req EXCEPT ![request_id].quit = TRUE]
           /\ IF ~IsActiveWorkerRequest(kw, request_id)
              THEN UNCHANGED <<fetchVars, cycleVars, request_start_index>>
              ELSE /\ last_fetch_request_ts' = last_fetch_request_ts \ {FetchKeyOf(kw)}
                   /\ request_start_index' = Pop(request_start_index, request_id)
                   /\ loading' = loading \ {kw}
                   /\ current_refresh_idx' =
                          IF is_sequential THEN SeqIdxAfter ELSE current_refresh_idx
                   /\ timers' = IF is_sequential THEN SeqTimersAfter ELSE timers
                   /\ network_error_count' = IF e.net THEN network_error_count + 1 ELSE 0
                   /\ UNCHANGED <<tab_fetch_state, network_available, reloaded,
                                  sequential_refresh_active, pending_refresh_keywords,
                                  total_refresh_count, sequential_added_count,
                                  sequential_dup_count, refresh_in_progress, dispatched,
                                  completions, last_return>>
    /\ UNCHANGED <<worker_request_seq, handles_by_request_id,
                   active_request_id_by_tab_keyword, workers, tabs, mpc, ctx>>
    /\ UNCHANGED <<startVars, clock, poolVars, thrVars, dbVars, workerVars>>

\* thread.finished: cleanup_worker(keyword=kw, request_id=rid, only_if_active=False)
OnThreadFinished ==
    /\ mpc = "idle"
    /\ queue # <<>>
    /\ Head(queue).kind = "thread_finished"
    /\ queue' = Tail(queue)
    /\ CleanupWorker(req[Head(queue).rid].keyword, Head(queue).rid, FALSE, NoCtx, "idle")
    /\ UNCHANGED <<worker_request_seq, request_start_index, workers>>
    /\ UNCHANGED <<fetchVars, cycleVars, tabs>>
    /\ UNCHANGED <<startVars, clock, poolVars, thrVars, dbVars, workerVars>>

(***************************************************************************)
(* The sequential refresh cycle                                            *)
(***************************************************************************)
\* the refresh button or a shortcut calls refresh_all
UserRefresh ==
    /\ mpc = "idle"
    /\ completions < MaxCycles
    /\ mpc' = "refresh_all"
    /\ ctx' = NoCtx
    /\ UNCHANGED <<registryVars, fetchVars, cycleVars, tabs, req, queue>>
    /\ UNCHANGED <<startVars, clock, poolVars, thrVars, dbVars, workerVars>>

\* _safe_refresh_all up to its call of refresh_all
SafeRefreshAll ==
    /\ mpc = "idle"
    /\ completions < MaxCycles
    /\ IF network_error_count >= MaxNetworkErrors
       THEN /\ network_available' = FALSE
            /\ UNCHANGED <<refresh_in_progress, mpc, ctx>>
       ELSE IF refresh_in_progress \/ sequential_refresh_active
       THEN UNCHANGED <<network_available, refresh_in_progress, mpc, ctx>>
       ELSE /\ refresh_in_progress' = TRUE
            /\ mpc' = "refresh_all"
            /\ ctx' = [NoCtx EXCEPT !.auto = TRUE]
            /\ UNCHANGED network_available
    /\ UNCHANGED <<tab_fetch_state, last_fetch_request_ts, network_error_count, reloaded, loading>>
    /\ UNCHANGED <<sequential_refresh_active, current_refresh_idx, pending_refresh_keywords,
                   total_refresh_count, sequential_added_count, sequential_dup_count,
                   timers, dispatched, completions, last_return>>
    /\ UNCHANGED <<registryVars, tabs, req, queue>>
    /\ UNCHANGED <<startVars, clock, poolVars, thrVars, dbVars, workerVars>>

SnapshotAll == tabs

\* the keywords refresh_all collects
Snapshot == SelectSeq(tabs, has_positive_keyword)

\* refresh_all up to its call of _process_next_refresh, and the finally block
\* of _safe_refresh_all when that was the caller
\* a wrapper that leaves the flag as it is
FlagKept == refresh_in_progress

\* finally: if not started: self._refresh_in_progress = False, in the
\* timer's wrapper only
FlagAfterNotStarted == IF ctx.auto THEN FALSE ELSE refresh_in_progress

RefreshAll(valid) ==
    /\ mpc = "refresh_all"
    /\ ctx' = NoCtx
    /\ IF sequential_refresh_active \/ ~valid
       THEN /\ last_return' = "False"
            /\ mpc' = "idle"
            /\ refresh_in_progress' = FlagAfterNotStarted
            /\ UNCHANGED <<network_error_count, network_available, sequential_refresh_active,
                           current_refresh_idx, pending_refresh_keywords, total_refresh_count,
                           sequential_added_count, sequential_dup_count, dispatched>>
       ELSE /\ network_error_count' = 0
            /\ network_available' = TRUE
            /\ pending_refresh_keywords' = Snapshot
            /\ IF Snapshot = <<>>
               THEN /\ last_return' = "False"
                    /\ mpc' = "idle"
                    /\ refresh_in_progress' = FlagAfterNotStarted
                    /\ UNCHANGED <<sequential_refresh_active, current_refresh_idx,
                                   total_refresh_count, sequential_added_count,
                                   sequential_dup_count, dispatched>>
               ELSE /\ sequential_refresh_active' = TRUE
                    /\ current_refresh_idx' = 0
                    /\ total_refresh_count' = Len(Snapshot)
                    /\ sequential_added_count' = 0
                    /\ sequential_dup_count' = 0
                    /\ dispatched' = <<>>
                    /\ last_return' = "True"
                    /\ mpc' = "process_next"
                    /\ UNCHANGED refresh_in_progress
    /\ UNCHANGED <<tab_fetch_state, last_fetch_request_ts, reloaded, loading>>
    /\ UNCHANGED <<timers, completions>>
    /\ UNCHANGED <<registryVars, tabs, req, queue>>
    /\ UNCHANGED <<startVars, clock, poolVars, thrVars, dbVars, workerVars>>

\* refresh_all raises inside its try block: in validate_api_credentials,
\* before anything is assigned, or in the set-up of the progress bar, after
\* the cycle fields are initialised.  The except branch runs
\* _finish_sequential_refresh and returns False.
RefreshAllRaises ==
    /\ mpc = "refresh_all"
    /\ ~sequential_refresh_active
    /\ \E point \in {"validate", "setup"} :
           IF point = "validate"
           THEN UNCHANGED <<network_error_count, network_available, current_refresh_idx,
                            total_refresh_count, sequential_added_count,
                            sequential_dup_count, dispatched>>
           ELSE /\ Snapshot # <<>>
                /\ network_error_count' = 0
                /\ network_available' = TRUE
                /\ current_refresh_idx' = 0
                /\ total_refresh_count' = Len(Snapshot)
                /\ sequential_added_count' = 0
                /\ sequential_dup_count' = 0
                /\ dispatched' = <<>>
    /\ sequential_refresh_active' = FALSE
    /\ pending_refresh_keywords' = <<>>
    /\ refresh_in_progress' = FALSE
    /\ completions' = completions + 1
    /\ last_return' = "False"
    /\ mpc' = "idle"
    /\ ctx' = NoCtx
    /\ UNCHANGED <<tab_fetch_state, last_fetch_request_ts, reloaded, loading, timers>>
    /\ UNCHANGED <<registryVars, tabs, req, queue>>
    /\ UNCHANGED <<startVars, clock, poolVars, thrVars, dbVars, workerVars>>

\* a QTimer.singleShot set by _on_sequential_fetch_done fires
TimerFires ==
    /\ mpc = "idle"
    /\ timers > 0
    /\ timers' = timers - 1
    /\ mpc' = "process_next"
    /\ UNCHANGED <<sequential_refresh_active, current_refresh_idx, pending_refresh_keywords,
                   total_refresh_count, sequential_added_count, sequential_dup_count,
                   refresh_in_progress, dispatched, completions, last_return>>
    /\ UNCHANGED <<registryVars, fetchVars, tabs, req, queue, ctx>>
    /\ UNCHANGED <<startVars, clock, poolVars, thrVars, dbVars, workerVars>>

\* _process_next_refresh, with _finish_sequential_refresh when the list is done
ProcessNextRefresh ==
    /\ mpc = "process_next"
    /\ IF ~sequential_refresh_active
       THEN /\ mpc' = "idle"
            /\ UNCHANGED <<registryVars, fetchVars, cycleVars, tabs, req, queue, ctx>>
            /\ UNCHANGED <<startVars, clock, poolVars, thrVars, dbVars, workerVars>>
       ELSE IF current_refresh_idx >= Len(pending_refresh_keywords)
       THEN /\ sequential_refresh_active' = FALSE
            /\ pending_refresh_keywords' = <<>>
            /\ refresh_in_progress' = FALSE
            /\ completions' = completions + 1
            /\ mpc' = "idle"
            /\ UNCHANGED <<current_refresh_idx, total_refresh_count, sequential_added_count,
                           sequential_dup_count, timers, dispatched, last_return>>
            /\ UNCHANGED <<registryVars, fetchVars, tabs, req, queue, ctx>>
            /\ UNCHANGED <<startVars, clock, poolVars, thrVars, dbVars, workerVars>>
       ELSE /\ worker_request_seq < MaxRequests
            /\ FetchNews(pending_refresh_keywords[current_refresh_idx + 1], FALSE, TRUE, 0)

(***************************************************************************)
(* Specifications                                                          *)
(***************************************************************************)
Init ==
    /\ InitPool /\ InitThreads /\ InitStore /\ InitUpsert /\ ApiWorkerInit(DefaultMaxRetries)
    /\ MainAppInit(<<>>)

\* callers get, return and close connections concurrently
NextPool ==
    \E t \in Threads :
        \/ CallGet(t) \/ GetCheck(t) \/ GetTake(t) \/ GetInc(t) \/ GetEmergency(t)
        \/ CallReturn(t) \/ RetCheckEmergency(t) \/ RetCheckClosed(t)
        \/ RetDec(t) \/ RetCheckFull(t) \/ RetPut(t)
        \/ CallClose(t) \/ CloseClear(t) \/ CloseDrain(t)

SpecPool == Init /\ [][NextPool]_vars

\* the construction of the manager, then its pool in use
NextStartup ==
    \/ CheckIntegrity
    \/ RecoverDatabase
    \/ InitDb
    \/ FillPool
    \/ ipc = "ready" /\ NextPool

InitStartup ==
    /\ DatabaseManagerInit /\ InitThreads /\ InitStore /\ InitUpsert
    /\ ApiWorkerInit(DefaultMaxRetries)
    /\ MainAppInit(<<>>)

SpecStartup == InitStartup /\ [][NextStartup]_vars

\* one thread ingests batch after batch
NextIngest ==
    \/ UpsertSteps(1)
    \/ GetCheck(1) \/ GetTake(1) \/ GetInc(1)
    \/ RetCheckEmergency(1) \/ RetCheckClosed(1) \/ RetDec(1) \/ RetCheckFull(1) \/ RetPut(1)

SpecIngest == Init /\ [][NextIngest]_vars

\* one thread ingests and recalculates
NextRecalc ==
    \/ NextIngest
    \/ \E k \in Keywords : recalculate_duplicate_flags(1, k)

SpecRecalc == Init /\ [][NextRecalc]_vars

\* number of threads that ingest concurrently
NWriters == 2
Writers == 1..NWriters

\* each writer thread makes one upsert_news call; the calls interleave
NextConcurrent ==
    \E t \in Writers :
        \/ (ret[t] = NoReturn /\ \E empty \in BOOLEAN : CallUpsert(t, empty))
        \/ \E its \in Batches, k \in Keywords : USelect(t, its, k)
        \/ USelectError(t)
        \/ UInsertNews(t) \/ UInsertNewsError(t)
        \/ UInsertKeywords(t) \/ UInsertKeywordsError(t)
        \/ UCommit(t) \/ UCommitError(t) \/ URollback(t)
        \/ GetCheck(t) \/ GetTake(t) \/ GetInc(t)
        \/ RetCheckEmergency(t) \/ RetCheckClosed(t) \/ RetDec(t)
        \/ RetCheckFull(t) \/ RetPut(t)

SpecConcurrent == Init /\ [][NextConcurrent]_vars

\* one ApiWorker runs, constructed with any max_retries; the controller may
\* stop it and thread 2 may close the DatabaseManager at any moment
InitWorker ==
    /\ InitPool /\ InitThreads /\ InitStore /\ InitUpsert
    /\ \E m \in 0..MaxRetriesBound : ApiWorkerInit(m)
    /\ MainAppInit(<<>>)

\* the steps of run, and of upsert_news on the worker's thread
RunSteps ==
    \/ Run \/ LoopTop \/ Backoff \/ Sleep
    \/ \E outcome \in Responses : Request(outcome)
    \/ \E outcome \in ParseOutcomes, its \in Batches : Parse(outcome, its)
    \/ \E should_exclude \in BOOLEAN : ParseItem(should_exclude)
    \/ (wpc = "upsert" /\ ret[1] = NoReturn /\ CallUpsert(1, witems = <<>>))
    \/ \E k \in Keywords : USelect(1, witems, k)
    \/ USelectError(1)
    \/ UInsertNews(1) \/ UInsertNewsError(1)
    \/ UInsertKeywords(1) \/ UInsertKeywordsError(1)
    \/ UCommit(1) \/ UCommitError(1) \/ URollback(1)
    \/ GetCheck(1) \/ GetTake(1) \/ GetInc(1) \/ GetEmergency(1)
    \/ RetCheckEmergency(1) \/ RetCheckClosed(1) \/ RetDec(1) \/ RetCheckFull(1) \/ RetPut(1)
    \/ UpsertReturn \/ Finish \/ SafeEmit \/ Emit

NextWorker ==
    \/ RunSteps
    \/ StopDestroy \/ StopSetRunning
    \/ CallClose(2) \/ CloseClear(2) \/ CloseDrain(2)

SpecWorker == InitWorker /\ [][NextWorker]_vars

\* the worker's thread is scheduled: run is never suspended for ever, and
\* session.get and the store answer or fail within their timeouts
SpecWorkerFair == SpecWorker /\ WF_vars(RunSteps)

InitApp ==
    /\ InitPool /\ InitThreads /\ InitStore /\ InitUpsert /\ ApiWorkerInit(DefaultMaxRetries)
    /\ \E open_tabs \in OpenTabLists : MainAppInit(open_tabs)

\* the worker threads and the slot calls they queue
RequestSteps ==
    \/ FetchNewsRegister
    \/ CleanupWaitOver
    \/ \E fetch_key \in {FetchKeyOf(k) : k \in TabKeywords} : WindowElapses(fetch_key)
    \/ \E rid \in 1..MaxRequests, o \in Outcomes : WorkerTerminal(rid, o)
    \/ \E rid \in 1..MaxRequests : ThreadFinish(rid)
    \/ OnFetchDone
    \/ OnFetchError
    \/ OnThreadFinished

\* manual fetches and load-more requests, no refresh cycle
NextDispatch ==
    \/ \E kw \in TabKeywords, is_more \in BOOLEAN, saved_count \in SavedCounts :
           UserFetch(kw, is_more, saved_count)
    \/ CeilingDialogClosed
    \/ RequestSteps

SpecDispatch == InitApp /\ [][NextDispatch]_vars

\* refresh cycles, with manual fetches from the context menu of a tab
NextApp ==
    \/ \E kw \in TabKeywords : UserFetch(kw, FALSE, 0)
    \/ RequestSteps
    \/ UserRefresh
    \/ SafeRefreshAll
    \/ \E valid \in BOOLEAN : RefreshAll(valid)
    \/ TimerFires
    \/ ProcessNextRefresh

SpecApp == InitApp /\ [][NextApp]_vars

\* one tab: its refreshes, its load-more requests and the refresh cycles
InitTab ==
    /\ InitPool /\ InitThreads /\ InitStore /\ InitUpsert /\ ApiWorkerInit(DefaultMaxRetries)
    /\ MainAppInit(<<KwA>>)

NextTab ==
    \/ \E is_more \in BOOLEAN, saved_count \in SavedCounts : UserFetch(KwA, is_more, saved_count)
    \/ CeilingDialogClosed
    \/ RequestSteps
    \/ UserRefresh
    \/ SafeRefreshAll
    \/ \E valid \in BOOLEAN : RefreshAll(valid)
    \/ TimerFires
    \/ ProcessNextRefresh

SpecTab == InitTab /\ [][NextTab]_vars

\* refresh cycles whose steps may fail, left alone by the user meanwhile
CycleSteps ==
    \/ FetchNewsRegister
    \/ FetchNewsRaises
    \/ CleanupWaitOver
    \/ \E rid \in 1..MaxRequests, o \in Outcomes : WorkerTerminal(rid, o)
    \/ \E rid \in 1..MaxRequests : ThreadFinish(rid)
    \/ OnFetchDone
    \/ OnFetchError
    \/ OnThreadFinished
    \/ \E valid \in BOOLEAN : RefreshAll(valid)
    \/ TimerFires
    \/ ProcessNextRefresh

NextFailure ==
    \/ UserRefresh
    \/ SafeRefreshAll
    \/ CycleSteps

SpecFailure == InitApp /\ [][NextFailure]_vars

\* a handler that has started runs on to its return
HandlerSteps ==
    \/ FetchNewsRegister
    \/ FetchNewsRaises
    \/ CleanupWaitOver
    \/ \E valid \in BOOLEAN : RefreshAll(valid)
    \/ ProcessNextRefresh

\* the controller's event loop delivers every timer and every queued call
\* however often other events come in between, a started handler runs on,
\* and each worker thread runs to its terminal signal and finishes
CycleFairness ==
    /\ WF_vars(HandlerSteps)
    /\ SF_vars(TimerFires)
    /\ SF_vars(OnFetchDone) /\ SF_vars(OnFetchError) /\ SF_vars(OnThreadFinished)
    /\ \A rid \in 1..MaxRequests :
           /\ WF_vars(\E o \in Outcomes : WorkerTerminal(rid, o))
           /\ WF_vars(ThreadFinish(rid))

SpecFailureFair == SpecFailure /\ CycleFairness

\* one tab whose context-menu refresh the user may call during a cycle
NextUser ==
    \/ UserFetch(KwA, FALSE, 0)
    \/ WindowElapses(FetchKeyOf(KwA))
    \/ NextFailure

SpecUser == InitTab /\ [][NextUser]_vars

SpecUserFair == SpecUser /\ CycleFairness

\* the same cycles, where refresh_all and on_fetch_done may raise as well
NextFaults ==
    \/ NextFailure
    \/ OnFetchDoneRaises
    \/ RefreshAllRaises

SpecFaults == InitApp /\ [][NextFaults]_vars

\* one tab: its manual refreshes and its load-more requests
NextPaging ==
    \/ \E is_more \in BOOLEAN, saved_count \in PagingCounts : UserFetch(KwA, is_more, saved_count)
    \/ CeilingDialogClosed
    \/ RequestSteps

SpecPaging == InitTab /\ [][NextPaging]_vars


\* raw queries: every string of at most MaxQueryLen characters of QueryChars
MaxQueryLen == 6
QueryChars == {"a", "b", "-", " "}
RawQueries == UNION {[1..n -> QueryChars] : n \in 0..MaxQueryLen}

\* queries of one search term followed by at most two exclusion tokens
KeyTerms == {<<"a">>, <<"A">>}
KeyExcludes == {<<"-", "b">>, <<"-", "c">>, <<"-", "B">>, <<"-", "b", "|", "c">>}
KeyQueries ==
    {t : t \in KeyTerms}
    \cup {Join(<<t, e>>, <<" ">>) : t \in KeyTerms, e \in KeyExcludes}
    \cup {Join(<<t, e, f>>, <<" ">>) : t \in KeyTerms, e \in KeyExcludes, f \in KeyExcludes}

InitQuery ==
    /\ InitPool /\ InitThreads /\ InitStore /\ InitUpsert /\ ApiWorkerInit(DefaultMaxRetries)
    /\ \E open_tabs \in {<<q>> : q \in RawQueries} \cup (KeyQueries \X KeyQueries) :
          MainAppInit(open_tabs)

\* manual fetches of the open tabs, inside one dedupe window
NextQuery ==
    \/ \E i \in 1..Len(tabs) : UserFetch(tabs[i], FALSE, 0)
    \/ FetchNewsRegister

SpecQuery == InitQuery /\ [][NextQuery]_vars

(***************************************************************************)
(* Properties of the connection pool (SpecPool)                            *)
(***************************************************************************)
\* C1: under every interleaving of get_connection, return_connection and
\* close the reusable pool never holds more than max_connections
\* connections and never holds a connection created as an emergency
\* connection; an emergency connection that went through return_connection
\* is closed.
C1_PoolBoundedNoEmergency ==
    /\ Len(connection_pool) <= MaxConnections
    /\ \A i \in 1..Len(connection_pool) : connection_pool[i] \notin EmergencyIds
    /\ \A c \in EmergencyIds : connOpen[c] => c \in LiveConns

\* an emergency connection was handed out and returned while the manager is
\* open, and the pool is full again
C1_Witness ==
    /\ ~closed
    /\ \E t \in Threads : out[t] = "emergency" /\ pc[t] = "idle" /\ held[t] = NoConn
    /\ Len(connection_pool) = MaxConnections

\* C2: checkout is exclusive: a connection a caller holds is held by no
\* other caller and is not in the pool, so no other get_connection can
\* return it before it is returned.
C2_ExclusiveCheckout ==
    /\ \A t1, t2 \in Threads :
          (t1 # t2 /\ held[t1] # NoConn) =>
              /\ held[t1] # held[t2]
              /\ ~(pc[t2] = "get_inc" /\ conn[t2] = held[t1])
    /\ \A t \in Threads : held[t] # NoConn => ~InPool(held[t])
    /\ \A i, j \in 1..Len(connection_pool) :
          i # j => connection_pool[i] # connection_pool[j]

\* both pooled connections are checked out by two callers and a third caller
\* holds an emergency connection
C2_Witness ==
    \E t1, t2, t3 \in Threads :
        /\ t1 # t2
        /\ held[t1] \in PooledIds /\ held[t2] \in PooledIds
        /\ held[t3] \in EmergencyIds

Commits(t) == pc[t] = "u_commit" /\ pc'[t] = "ret_emerg"

FlagOf(nkRows, k, l) ==
    LET idx == {i \in 1..Len(nkRows[k]) : nkRows[k][i].link = l}
    IN IF idx = {} THEN -1 ELSE nkRows[k][CHOOSE i \in idx : TRUE].is_duplicate
Associated(nkRows, k, l) == \E i \in 1..Len(nkRows[k]) : nkRows[k][i].link = l
HashOf(newsRows, l) == (CHOOSE n \in newsRows : n.link = l).title_hash

\* C4: re-ingestion is idempotent: upsert_news([item], K) returns (1, 0)
\* when the link is new and its fingerprint is new under K, and returns
\* (0, 0) when the same link with the same title is already stored under K
\* as a non-duplicate, after which one row is stored for the link under K
\* with duplicate flag 0.
C4_ReingestIdempotent ==
    [][\A t \in Threads :
          (Commits(t) /\ Len(items[t]) = 1) =>
             LET it == items[t][1]
                 k == keyword[t]
             IN /\ ( /\ ~(\E n \in news : n.link = it.link)
                     /\ ExistingHashes(k, {calculate_title_hash(it.title)},
                                       news, news_keywords) = {} )
                      => ret'[t] = <<1, 0>>
                /\ ( /\ \E n \in news : n.link = it.link /\ n.title = it.title
                     /\ FlagOf(news_keywords, k, it.link) = 0 )
                      => /\ ret'[t] = <<0, 0>>
                         /\ Cardinality({n \in news' : n.link = it.link}) = 1
                         /\ Cardinality({i \in 1..Len(news_keywords'[k]) :
                                            news_keywords'[k][i].link = it.link}) = 1
                         /\ FlagOf(news_keywords', k, it.link) = 0
       ]_vars

\* C5: the store holds exactly one article row for every link that has an
\* association, at most one article row per link and at most one
\* association row per (link, keyword) pair.
C5_OneRowPerLink ==
    /\ \A l \in Links : Cardinality({n \in news : n.link = l}) <= 1
    /\ \A k \in Keywords : \A i, j \in 1..Len(news_keywords[k]) :
          i # j => news_keywords[k][i].link # news_keywords[k][j].link
    /\ \A k \in Keywords : \A i \in 1..Len(news_keywords[k]) :
          Cardinality({n \in news : n.link = news_keywords[k][i].link}) = 1

\* one link is stored once and associated with both keywords
C5_Witness ==
    \E l \in Links :
        /\ Cardinality({n \in news : n.link = l}) = 1
        /\ \A k \in Keywords : Associated(news_keywords, k, l)

C7_RecalcReproducesIncremental ==
    \A k \in Keywords :
        LET once == RecalculatedRows(k, news, news_keywords)
        IN /\ RecalculatedRows(k, news, [news_keywords EXCEPT ![k] = once]) = once
           /\ once = news_keywords[k]

\* C8: a storage error inside the batch makes upsert_news return (0, 0)
\* without raising and leaves the store as it was: no step of the call other
\* than a successful commit changes the committed tables, and the rollback
\* releases the transaction.
C8_ErrorAbandonsBatch ==
    [][\A t \in Threads :
          /\ (op[t] = "upsert" /\ pc'[t] # pc[t] /\ ~Commits(t)) =>
                news' = news /\ news_keywords' = news_keywords
          /\ (pc[t] = "u_rollback" /\ pc'[t] # "u_rollback") =>
                /\ ret'[t] = <<0, 0>>
                /\ txn'[t] = EmptyTxn
                /\ writer' # t
       ]_vars

\* a call that had written rows of its batch ended by an error with (0, 0)
\* on a store that already held rows
C8_Witness ==
    \E t \in Threads :
        /\ op[t] = "upsert" /\ pc[t] = "ret_emerg"
        /\ ret[t] = <<0, 0>>
        /\ news # {}

\* C9 as claimed: the existence check and the inserts of a batch form one
\* transaction: the committed tables change only by the commit of a whole
\* batch, and they do not change while a batch is between its existence
\* check and its inserts.
C9_CheckAndInsertsOneTransaction ==
    [][/\ (news' # news \/ news_keywords' # news_keywords) =>
             \E t \in Threads :
                 /\ Commits(t)
                 /\ \A i \in 1..Len(items[t]) :
                       /\ \E n \in news' : n.link = items[t][i].link
                       /\ Associated(news_keywords', keyword[t], items[t][i].link)
       /\ \A t \in Threads :
             (pc[t] = "u_ins_news" /\ pc'[t] = "u_ins_news") =>
                 news' = news /\ news_keywords' = news_keywords
      ]_vars

\* C9 as amended: the article inserts and the association inserts of a batch
\* are committed as one transaction: the committed tables change only by the
\* commit of a whole batch, which brings every item's article row together
\* with its association row.
C9_BatchCommittedAtomically ==
    [][(news' # news \/ news_keywords' # news_keywords) =>
          \E t \in Threads :
              /\ Commits(t)
              /\ \A i \in 1..Len(items[t]) :
                    /\ \E n \in news' : n.link = items[t][i].link
                    /\ Associated(news_keywords', keyword[t], items[t][i].link)
      ]_vars

\* a batch of two items has written all its rows and not committed yet,
\* while another thread is inside upsert_news
C9_Witness ==
    \E t, u \in Threads :
        /\ t # u
        /\ pc[t] = "u_commit" /\ Len(items[t]) = 2
        /\ txn[t].news # news
        /\ op[u] = "upsert"

(***************************************************************************)
(* Properties of ApiWorker.run (SpecWorker)                                *)
(***************************************************************************)
\* stop() has been called on the worker
Cancelled == destroyed \/ ~is_running

\* C10: a run never emits more than one terminal event (finished or error),
\* and a run that ended without being cancelled has emitted exactly one,
\* whatever the API calls produced and whatever max_retries is.
C10_ExactlyOneTerminalEvent ==
    /\ Len(events) <= 1
    /\ (wpc = "done" /\ ~Cancelled) => Len(events) = 1

\* C11: once stop() has set the cancellation flag (both assignments of
\* stop are done) the worker emits no signal any more, neither finished nor
\* error nor progress, wherever in run the call of stop falls.
C11_NoEmitAfterStop ==
    [][spc = "done" => ~(wpc = "emitting" /\ wpc' # "emitting")]_vars

\* C12: no run issues more than max_retries requests; a run that ended
\* uncancelled with every response a rate limit, a timeout or a network
\* error has issued exactly max_retries requests and emitted one error; and
\* every run terminates.
C12_BoundedRetry ==
    /\ [](/\ requests <= max_retries
          /\ (wpc = "done" /\ ~Cancelled /\ transient) =>
                /\ requests = max_retries
                /\ Len(events) = 1
                /\ events[1].kind = "error")
    /\ <>(wpc = "done")

\* C13: a response whose status is neither 200 nor 429 ends the run at
\* once: the only thing run still does is emit the error (which an
\* uncancelled run does emit), no further request is issued whatever
\* max_retries is, and upsert_news is not called.
C13_OtherStatusEndsRun ==
    [][resp' = "other" =>
          /\ wpc' \in {"emit", "emitting", "done"}
          /\ wpc' # "done" => (sig' = "error" /\ after' = "done")
          /\ resp = "other" => requests' = requests
          /\ pc'[1] = "idle" /\ ret'[1] = NoReturn
          /\ (wpc' = "done" /\ ~Cancelled') =>
                (Len(events') = 1 /\ events'[1].kind = "error")
      ]_vars

\* the first of three allowed attempts got such a status and the run has
\* ended with its error, one request issued
C13_Witness ==
    /\ resp = "other" /\ wpc = "done"
    /\ max_retries = 3 /\ requests = 1
    /\ Len(events) = 1 /\ events[1].kind = "error"

\* every item of the batch has its article row and an association row
Persisted(its) ==
    \A i \in 1..Len(its) :
        /\ \E n \in news : n.link = its[i].link
        /\ \E k \in Keywords : Associated(news_keywords, k, its[i].link)

\* the finished signal has been emitted
FinishedEmitted == Len(events) >= 1 /\ events[1].kind = "finished"

\* finished comes after the return of upsert_news and carries its counts
FinishedAfterReturn ==
    /\ pc[1] = "idle" /\ op[1] = "none"
    /\ writer # 1 /\ txn[1] = EmptyTxn
    /\ ret[1] # NoReturn /\ ret[1] # Raised
    /\ events[1].counts = ret[1]

\* C14 as claimed: when finished has been emitted, upsert_news for the batch
\* has returned, the event carries the counts it returned, and the batch is
\* in the store.
C14_FinishedAfterPersisted ==
    FinishedEmitted => (FinishedAfterReturn /\ Persisted(witems))

\* C14 as amended: when finished has been emitted, upsert_news for the batch
\* has returned and the event carries the counts it returned; the batch is
\* in the store if upsert_news committed it, and if a storage error made
\* upsert_news abandon the batch the counts are (0, 0) and nothing of it was
\* stored.
C14_FinishedAfterReturn ==
    FinishedEmitted =>
        /\ FinishedAfterReturn
        /\ events[1].counts # <<0, 0>> =>
              (Persisted(witems) /\ events[1].counts[1] + events[1].counts[2] = Len(witems))
        /\ events[1].counts = <<0, 0>> => news = {}

\* finished was emitted for a committed batch of two items
C14_Witness ==
    /\ FinishedEmitted
    /\ Len(witems) = 2
    /\ events[1].counts # <<0, 0>>
    /\ news # {}

(***************************************************************************)
(* Properties of request dispatch and teardown (SpecDispatch)              *)
(***************************************************************************)
RequestIds == 1..MaxRequests

\* the requests registered so far for a tab
RegisteredFor(tab) == {rid \in DOMAIN req : req[rid].keyword = tab}

MostRecentFor(tab) == CHOOSE rid \in RegisteredFor(tab) : \A other \in RegisteredFor(tab) : other <= rid

ActiveIds(tab) == {rid \in RequestIds : is_active(active_request_id_by_tab_keyword, tab, rid)}

C15_ActiveIsMostRecent ==
    \A tab \in TabKeywords :
        /\ Cardinality(ActiveIds(tab)) <= 1
        /\ \A rid \in ActiveIds(tab) :
              /\ rid \in RegisteredFor(tab)
              /\ rid = MostRecentFor(tab)
              /\ Has(handles_by_request_id, rid)

C15_IdsIncrease ==
    /\ worker_request_seq' >= worker_request_seq
    /\ \A rid \in (DOMAIN req') \ (DOMAIN req) :
          /\ rid = worker_request_seq'
          /\ rid > worker_request_seq
          /\ \A earlier \in DOMAIN req : earlier < rid

\* C15: request ids grow strictly from one dispatch to the next, and at any
\* time a tab has at most one active id, which is the id registered last for
\* the tab and whose handle is still in the registry.
C15_StrictIdsOneActive == []C15_ActiveIsMostRecent /\ [][C15_IdsIncrease]_vars

C15_Witness ==
    \E a \in DOMAIN req, b \in DOMAIN req :
        /\ a < b
        /\ req[a].keyword = req[b].keyword
        /\ ActiveIds(req[b].keyword) = {b}
        /\ ~Has(handles_by_request_id, a)

\* the queued cleanup of a finished thread is delivered
ThreadFinishedHandled(rid) ==
    /\ mpc = "idle"
    /\ queue # <<>>
    /\ Head(queue).kind = "thread_finished"
    /\ Head(queue).rid = rid
    /\ queue' = Tail(queue)

\* C17: when the thread of a request has finished and its cleanup is
\* delivered, the request's handle is no longer in the registry, active or
\* stale; if the request was not the active one of its tab, the active ids
\* are as before.
C17_RemovedWhenThreadFinished ==
    [][\A rid \in RequestIds :
          ThreadFinishedHandled(rid) =>
              /\ ~Has(handles_by_request_id', rid)
              /\ (~is_active(active_request_id_by_tab_keyword, req[rid].keyword, rid)
                    => active_request_id_by_tab_keyword' = active_request_id_by_tab_keyword)]_vars

C17_Witness ==
    \E a \in DOMAIN req, b \in DOMAIN req :
        /\ a < b
        /\ req[a].keyword = req[b].keyword
        /\ req[a].thread = "finished"
        /\ \A i \in 1..Len(queue) : queue[i].rid # a
        /\ mpc = "idle"
        /\ is_active(active_request_id_by_tab_keyword, req[b].keyword, b)
        /\ Has(handles_by_request_id, b)
        /\ ~Has(handles_by_request_id, a)

\* C18: while cleanup_worker waits for the thread, the request's handle is
\* already out of the registry, its worker was told to stop and its thread to
\* quit, and the wait can end whatever the worker is doing.
C18_TeardownNeverBlocks ==
    mpc = "cleanup_wait" =>
        /\ ~Has(handles_by_request_id, ctx.cleaning)
        /\ req[ctx.cleaning].stopped
        /\ req[ctx.cleaning].quit
        /\ ENABLED CleanupWaitOver

C18_Witness ==
    /\ mpc = "idle"
    /\ \E rid \in DOMAIN req :
          /\ req[rid].stopped
          /\ req[rid].run = "running"
          /\ req[rid].thread = "running"
          /\ ~Has(handles_by_request_id, rid)
          /\ ~Has(request_start_index, rid)

(***************************************************************************)
(* Properties of stale results and of the refresh cycle (SpecApp)          *)
(***************************************************************************)
\* the completion or error of a request that is no longer the active one of
\* its tab is delivered
StaleEventHandled ==
    /\ mpc = "idle"
    /\ queue # <<>>
    /\ Head(queue).kind \in {"done", "error"}
    /\ ~is_active(active_request_id_by_tab_keyword, req[Head(queue).rid].keyword, Head(queue).rid)
    /\ queue' = Tail(queue)

\* C16: handling the completion or error of a superseded request leaves
\* the page offsets, the dedupe stamps, the start offsets of the requests, the
\* cycle's index, counters and scheduled steps and the network-error counter
\* as they were, and reloads no tab.
C16_StaleResultRejected ==
    [][StaleEventHandled =>
          /\ UNCHANGED <<tab_fetch_state, last_fetch_request_ts, request_start_index>>
          /\ UNCHANGED <<sequential_refresh_active, current_refresh_idx, pending_refresh_keywords,
                         sequential_added_count, sequential_dup_count, timers>>
          /\ UNCHANGED <<network_error_count, network_available>>
          /\ UNCHANGED <<reloaded, loading>>]_vars

\* the sequential request of the first keyword was superseded, its terminal
\* signal was queued and has been handled, and the cycle is where it was
C16_Witness ==
    \E a \in DOMAIN req, b \in DOMAIN req :
        /\ a < b
        /\ req[a].keyword = req[b].keyword
        /\ req[a].is_sequential
        /\ req[a].run = "emitted"
        /\ \A i \in 1..Len(queue) : queue[i].rid # a
        /\ is_active(active_request_id_by_tab_keyword, req[b].keyword, b)
        /\ req[b].run = "running"
        /\ sequential_refresh_active
        /\ current_refresh_idx = 0
        /\ dispatched = <<req[a].keyword>>
        /\ ~Has(reloaded, req[a].keyword)

\* a tab keyword with a token that is not an exclusion token
HasSearchTerm(raw) ==
    \E i \in 1..Len(raw) :
        /\ ~IsSpace(raw[i])
        /\ raw[i] # "-"
        /\ (i = 1 \/ IsSpace(raw[i - 1]))

EligibleTabs == SelectSeq(tabs, HasSearchTerm)

RefreshAllReturns == mpc = "refresh_all" /\ mpc' # "refresh_all"

StartsCycle ==
    /\ ~sequential_refresh_active
    /\ sequential_refresh_active'
    /\ current_refresh_idx' = 0
    /\ sequential_added_count' = 0
    /\ sequential_dup_count' = 0
    /\ pending_refresh_keywords' = EligibleTabs

\* C19: refresh_all returns True exactly when it takes the cycle from
\* Idle to Active at index 0 with zeroed counters and the eligible tab
\* keywords as pending list; called while a cycle is Active or when no tab is
\* eligible it returns False, registers no request, and a running cycle keeps
\* its index, pending list and counters.
C19_RefreshAllContract ==
    [][RefreshAllReturns =>
          /\ last_return' \in {"True", "False"}
          /\ (last_return' = "True") <=> StartsCycle
          /\ (sequential_refresh_active \/ EligibleTabs = <<>>) =>
                /\ last_return' = "False"
                /\ mpc' = "idle"
                /\ UNCHANGED <<registryVars, req, queue, timers, dispatched>>
          /\ sequential_refresh_active =>
                UNCHANGED <<sequential_refresh_active, current_refresh_idx,
                            pending_refresh_keywords, total_refresh_count,
                            sequential_added_count, sequential_dup_count>>]_vars

\* a second cycle has just been started after a first one that counted items
C19_Witness ==
    /\ last_return = "True"
    /\ mpc = "process_next"
    /\ sequential_refresh_active
    /\ completions = 1
    /\ current_refresh_idx = 0
    /\ pending_refresh_keywords = <<KwB, KwA>>
    /\ \E rid \in DOMAIN req : req[rid].is_sequential /\ req[rid].run = "emitted"

\* a sequential request that can still advance the cycle: it is the active
\* request of its tab and its terminal signal is still to come or is queued
SequentialStepInFlight ==
    \E rid \in DOMAIN req :
        /\ req[rid].is_sequential
        /\ is_active(active_request_id_by_tab_keyword, req[rid].keyword, rid)
        /\ \/ req[rid].run = "running"
           \/ \E i \in 1..Len(queue) : queue[i].rid = rid /\ queue[i].kind \in {"done", "error"}

\* C20: an Active cycle has dispatched a prefix of its snapshot in
\* snapshot order and is on its way to the aggregate completion: a handler is
\* executing, a next step is scheduled, or the sequential request of the
\* current keyword is in flight.
C20_CycleCompletes ==
    sequential_refresh_active =>
        /\ Len(dispatched) <= Len(pending_refresh_keywords)
        /\ dispatched = SubSeq(pending_refresh_keywords, 1, Len(dispatched))
        /\ (mpc # "idle" \/ timers > 0 \/ SequentialStepInFlight)

(***************************************************************************)
(* Properties of the query parser and the fetch key (SpecQuery)            *)
(***************************************************************************)
\* the tokens of a raw query, read off its characters: token k starts at the
\* k-th position that holds no whitespace and follows whitespace or nothing
TokenStarts(raw) == {i \in 1..Len(raw) : ~IsSpace(raw[i]) /\ (i = 1 \/ IsSpace(raw[i - 1]))}

TokenAt(raw, i) ==
    LET stop == CHOOSE j \in i..Len(raw) :
                    /\ \A k \in i..j : ~IsSpace(raw[k])
                    /\ (j = Len(raw) \/ IsSpace(raw[j + 1]))
    IN  SubSeq(raw, i, stop)

\* the search term and the exclusion terms the claim describes
ExpectedTerm(raw) ==
    LET pos == {i \in TokenStarts(raw) : raw[i] # "-"}
    IN  IF pos = {} THEN <<>> ELSE TokenAt(raw, CHOOSE i \in pos : \A j \in pos : i <= j)

ExpectedExcludes(raw) ==
    LET neg == {i \in TokenStarts(raw) : raw[i] = "-" /\ Len(TokenAt(raw, i)) > 1}
        nth == [k \in 1..Cardinality(neg) |->
                   CHOOSE i \in neg : Cardinality({j \in neg : j < i}) = k - 1]
    IN  [k \in 1..Cardinality(neg) |-> Tail(TokenAt(raw, nth[k]))]

\* C29: for every raw query of a tab, parse_tab_query yields the first
\* whitespace-separated token without a leading '-' as search term (empty
\* when there is none) and, in order, every token with a leading '-' and
\* something after it, marker stripped, as exclusion terms; every registered
\* request carries exactly these.
C29_ParseTabQuery ==
    /\ \A i \in 1..Len(tabs) :
          /\ parse_tab_query(tabs[i]) = <<ExpectedTerm(tabs[i]), ExpectedExcludes(tabs[i])>>
          /\ has_positive_keyword(tabs[i]) <=> ExpectedTerm(tabs[i]) # <<>>
    /\ \A rid \in DOMAIN req :
          /\ req[rid].search_keyword = ExpectedTerm(req[rid].keyword)
          /\ req[rid].exclude_words = ExpectedExcludes(req[rid].keyword)
          /\ req[rid].search_keyword # <<>>

\* a request was registered for the query "-b a b": the exclusion token comes
\* first, the second positive token is ignored
C29_Witness ==
    \E rid \in DOMAIN req :
        /\ req[rid].keyword = <<"-", "b", " ", "a", " ", "b">>
        /\ req[rid].search_keyword = <<"a">>
        /\ req[rid].exclude_words = << <<"b">> >>

ExcludeSet(raw) ==
    {LowerCase(parse_tab_query(raw)[2][i]) : i \in 1..Len(parse_tab_query(raw)[2])}

\* C23: two queries of the open tabs have the same fetch key only if
\* their search terms and their sets of exclusion terms are the same (both
\* taken as normalized, in lower case); order and repetition of the exclusion
\* terms do not change the key.
C23_FetchKeyFaithful ==
    \A i \in 1..Len(tabs), j \in 1..Len(tabs) :
        (FetchKeyOf(tabs[i]) = FetchKeyOf(tabs[j]))
            <=> /\ LowerCase(parse_tab_query(tabs[i])[1]) = LowerCase(parse_tab_query(tabs[j])[1])
                /\ ExcludeSet(tabs[i]) = ExcludeSet(tabs[j])

\* the largest page boundary (multiple of PageSize) not above n
PageBoundary(n) == CHOOSE b \in 0..n : b % PageSize = 0 /\ n - b < PageSize

\* fetch_news has just computed the start offset of a load-more request
LoadMoreStarts == mpc = "idle" /\ mpc' # "idle" /\ ctx'.is_more

\* C24: a load-more request starts one page after the recorded last offset
\* of its tab when there is one; otherwise it starts just after the stored
\* item count rounded down to a page boundary, and never before offset 101.
C24_LoadMoreStart ==
    [][LoadMoreStarts =>
           LET last == tab_fetch_state[ctx'.keyword]
               from_count == PageBoundary(ctx'.saved_count) + 1
           IN  /\ last > 0 => ctx'.start_idx = last + 100
               /\ last = 0 /\ from_count >= 101 => ctx'.start_idx = from_count
               /\ last = 0 /\ from_count < 101 => ctx'.start_idx = 101]_vars

\* a load-more that started from the stored count 250 at 201 has completed
\* and the next load-more of the tab runs from 301
C24_Witness ==
    \E a \in DOMAIN req, b \in DOMAIN req :
        /\ req[a].is_more /\ req[a].start_idx = 201 /\ req[a].completed
        /\ req[b].is_more /\ req[b].start_idx = 301 /\ req[b].keyword = req[a].keyword

\* C25: no worker is dispatched with a start offset above 1000; a load-more
\* whose computed offset exceeds it opens the information dialog, and neither
\* opening nor closing the dialog registers a request, stops or disconnects
\* one, or changes a recorded offset.
C25_CeilingRespected ==
    /\ [](\A rid \in DOMAIN req : req[rid].start_idx <= 1000)
    /\ [][/\ LoadMoreStarts /\ ctx'.start_idx > 1000 => mpc' = "ceiling_dialog"
          /\ mpc' # mpc /\ "ceiling_dialog" \in {mpc, mpc'} =>
                 UNCHANGED <<registryVars, req, queue, tab_fetch_state, request_start_index>>]_vars

\* a load-more one page after the completed request at 901 is refused while
\* that request is still the active one of the tab
C25_Witness ==
    /\ mpc = "ceiling_dialog"
    /\ ctx.start_idx = 1001
    /\ tab_fetch_state[ctx.keyword] = 901
    /\ \E rid \in DOMAIN req :
           /\ IsActiveWorkerRequest(ctx.keyword, rid)
           /\ req[rid].connected /\ ~req[rid].stopped

\* the controller handles the completion at the head of its queue
DoneHandled == mpc = "idle" /\ queue # <<>> /\ Head(queue).kind = "done" /\ queue' = Tail(queue)

\* C27: the recorded last offset of a tab is the start offset of the request
\* whose completion was accepted last (0 before any); it changes only when
\* the completion of the tab's active request is handled, and then becomes
\* that request's start offset.
C27_LastOffsetFrame ==
    /\ [](\A kw \in DOMAIN tab_fetch_state :
             tab_fetch_state[kw] = IF Has(reloaded, kw) THEN req[reloaded[kw]].start_idx ELSE 0)
    /\ [][/\ tab_fetch_state' # tab_fetch_state =>
                 /\ DoneHandled
                 /\ IsActiveWorkerRequest(req[Head(queue).rid].keyword, Head(queue).rid)
          /\ DoneHandled /\ IsActiveWorkerRequest(req[Head(queue).rid].keyword, Head(queue).rid) =>
                 tab_fetch_state' = Put(tab_fetch_state, req[Head(queue).rid].keyword,
                                        req[Head(queue).rid].start_idx)]_vars

\* the tab keeps offset 101 after a later request at 201 ended in an error
\* or in a stale completion and a third request has been dispatched
C27_Witness ==
    \E a \in DOMAIN req, b \in DOMAIN req, c \in DOMAIN req :
        /\ a < b /\ b < c
        /\ req[a].completed /\ req[a].start_idx = 101
        /\ req[b].keyword = req[a].keyword /\ req[b].start_idx = 201
        /\ req[b].quit /\ ~req[b].completed
        /\ req[c].keyword = req[a].keyword
        /\ tab_fetch_state[req[a].keyword] = 101

\* C26: a load-more request of a tab never starts at the offset of an
\* earlier request of that tab whose completion was accepted.
C26_NoCoveredPageAgain ==
    \A a \in DOMAIN req, b \in DOMAIN req :
        a < b /\ req[a].keyword = req[b].keyword /\ req[a].completed /\ req[b].is_more
            => req[b].start_idx # req[a].start_idx

\* the fetch key of the tab was dispatched manually inside the dedupe window
InWindow(kw) == FetchKeyOf(kw) \in last_fetch_request_ts

\* fetch_news goes on to the dispatch of a worker
Dispatching == mpc' \in {"register", "cleanup_wait"}

\* C22: inside the dedupe window of its fetch key a manual fetch changes
\* nothing (no worker, no superseded request), while a load-more request and
\* a sequential step go on to dispatch their worker all the same.
C22_DedupeManualOnly ==
    /\ \A kw \in OpenTabs :
           mpc = "idle" /\ worker_request_seq < MaxRequests /\ InWindow(kw) =>
               /\ ~ENABLED <<UserFetch(kw, FALSE, 0)>>_vars
               /\ kw \notin loading => ENABLED (UserFetch(kw, TRUE, 0) /\ Dispatching)
    /\ /\ mpc = "process_next" /\ sequential_refresh_active
       /\ worker_request_seq < MaxRequests
       /\ current_refresh_idx < Len(pending_refresh_keywords)
       /\ InWindow(pending_refresh_keywords[current_refresh_idx + 1])
       => ENABLED (ProcessNextRefresh /\ Dispatching)

\* the first request of the tab was manual and its window is still open; a
\* load-more and a sequential step were dispatched after it
C22_Witness ==
    /\ DOMAIN req = 1..3
    /\ ~req[1].is_more /\ ~req[1].is_sequential
    /\ req[2].is_more /\ req[3].is_sequential
    /\ req[2].keyword = req[1].keyword /\ req[3].keyword = req[1].keyword
    /\ InWindow(req[1].keyword)

\* the controller handles the error event of the active sequential request
SequentialErrorHandled ==
    /\ mpc = "idle" /\ queue # <<>> /\ Head(queue).kind = "error" /\ queue' = Tail(queue)
    /\ req[Head(queue).rid].is_sequential
    /\ IsActiveWorkerRequest(req[Head(queue).rid].keyword, Head(queue).rid)

\* the dispatch of a sequential step raised
SequentialDispatchRaised ==
    mpc = "register" /\ ctx.is_sequential /\ mpc' = "idle" /\ UNCHANGED worker_request_seq

\* request ids are left for every keyword the cycle still has to dispatch
HasBudget ==
    worker_request_seq + Len(pending_refresh_keywords) - current_refresh_idx <= MaxRequests

\* C21: during a cycle the error event of a sequential step and an exception
\* raised by its dispatch both move the index one keyword on and schedule the
\* next step; the next step dispatches the keyword at the index or finishes
\* the cycle past the last one; so a cycle whose steps fail still ends.
C21_FailureAdvances ==
    /\ [][/\ sequential_refresh_active /\ (SequentialErrorHandled \/ SequentialDispatchRaised) =>
                 /\ current_refresh_idx' = current_refresh_idx + 1
                 /\ timers' = timers + 1
                 /\ sequential_refresh_active'
          /\ sequential_refresh_active /\ mpc = "process_next" /\ mpc' # mpc =>
                 IF current_refresh_idx >= Len(pending_refresh_keywords)
                 THEN ~sequential_refresh_active' /\ completions' = completions + 1
                 ELSE /\ Dispatching
                      /\ ctx'.keyword = pending_refresh_keywords[current_refresh_idx + 1]]_vars
    /\ (sequential_refresh_active /\ HasBudget) ~> ~sequential_refresh_active

\* a cycle over two keywords has finished although the dispatch of one
\* raised and the only request that was dispatched ended in an error
C21_Witness ==
    /\ completions = 1
    /\ total_refresh_count = 2
    /\ DOMAIN req = {1}
    /\ req[1].is_sequential /\ req[1].quit /\ ~req[1].completed

\* sequential requests whose worker still runs or whose terminal signal
\* waits in the controller's queue
InFlightSequential ==
    {rid \in DOMAIN req :
        /\ req[rid].is_sequential
        /\ \/ req[rid].run = "running"
           \/ \E i \in 1..Len(queue) :
                  queue[i].rid = rid /\ queue[i].kind \in {"done", "error"}}

\* C28: during a cycle at most one sequential request is in flight, and a
\* step of the cycle goes on to a dispatch only when none is: the completion
\* or the error of the keyword before has been handled.
C28_OneStepAtATime ==
    /\ [](sequential_refresh_active => Cardinality(InFlightSequential) <= 1)
    /\ [][mpc = "process_next" /\ Dispatching => InFlightSequential = {}]_vars

\* the second keyword of a cycle is in flight after the completion of the
\* first has been handled
C28_Witness ==
    /\ sequential_refresh_active
    /\ Len(dispatched) = 2
    /\ \E a \in DOMAIN req, b \in InFlightSequential :
           /\ req[a].is_sequential /\ req[a].completed
           /\ req[a].keyword = dispatched[1] /\ req[b].keyword = dispatched[2]

\* C30: a store file that fails the integrity check is moved aside under a
\* timestamp-suffixed name before the schema is created, so init_db and the
\* pooled connections never open the corrupt file.
C30_CorruptMovedAside ==
    /\ "corrupt" \notin opened
    /\ ipc \in {"init_db", "fill_pool", "ready", "failed"} => db_file # "corrupt"

\* C33: the timer's guard flag is never set while the controller is idle
\* and no cycle is active; a timer-triggered refresh_all that returns
\* without a cycle, and the end of a cycle, leave it cleared; and the
\* timer's wrapper calls refresh_all only when neither the flag nor the
\* cycle-active flag is set.
C33_TimerGuardReleased ==
    /\ [](mpc = "idle" /\ ~sequential_refresh_active => ~refresh_in_progress)
    /\ [][/\ mpc = "refresh_all" /\ ctx.auto /\ mpc' = "idle" => ~refresh_in_progress'
          /\ sequential_refresh_active /\ ~sequential_refresh_active' => ~refresh_in_progress'
          /\ mpc = "idle" /\ mpc' = "refresh_all" /\ ctx'.auto =>
                 /\ ~refresh_in_progress /\ ~sequential_refresh_active
                 /\ refresh_in_progress']_vars

\* a cycle the timer started has gone through its keywords and is about to
\* finish with the flag still set
C33_Witness ==
    /\ refresh_in_progress /\ sequential_refresh_active
    /\ mpc = "process_next"
    /\ current_refresh_idx >= Len(pending_refresh_keywords)
    /\ Len(dispatched) >= 1

\* the controller handles the completion or the error of the active
\* sequential request during a cycle
SequentialEventHandled ==
    /\ sequential_refresh_active
    /\ mpc = "idle" /\ queue # <<>> /\ queue' = Tail(queue)
    /\ Head(queue).kind \in {"done", "error"}
    /\ req[Head(queue).rid].is_sequential
    /\ IsActiveWorkerRequest(req[Head(queue).rid].keyword, Head(queue).rid)

\* C34: every handled completion or error of a sequential step, also a
\* completion whose post-processing raises, moves the index on by exactly
\* one and schedules exactly one step; within a cycle the index only ever
\* moves by one, each step dispatches the keyword at the index, at most one
\* step is scheduled, and no keyword is dispatched twice.
C34_ExactlyOneAdvance ==
    /\ [][/\ SequentialEventHandled =>
                 /\ current_refresh_idx' = current_refresh_idx + 1
                 /\ timers' = timers + 1
          /\ sequential_refresh_active /\ sequential_refresh_active'
                 /\ current_refresh_idx' # current_refresh_idx =>
                 current_refresh_idx' = current_refresh_idx + 1
          /\ sequential_refresh_active /\ mpc = "process_next" /\ Dispatching =>
                 ctx'.keyword = pending_refresh_keywords[current_refresh_idx + 1]]_vars
    /\ [](sequential_refresh_active =>
             /\ timers <= 1
             /\ \A i \in 1..Len(dispatched), j \in 1..Len(dispatched) :
                    i # j => dispatched[i] # dispatched[j])

\* the completion of the first keyword raised in its post-processing (the
\* tab was not reloaded) and the second keyword has been dispatched
C34_Witness ==
    /\ sequential_refresh_active
    /\ Len(dispatched) = 2
    /\ \E rid \in DOMAIN req :
           /\ req[rid].is_sequential /\ req[rid].completed
           /\ req[rid].keyword = dispatched[1]
           /\ ~Has(reloaded, req[rid].keyword)

\* C35: an active cycle eventually ends, whatever the user does meanwhile
\* (the model stops handing out request ids at MaxRequests, so a cycle that
\* waits for an id is not counted).
C35_CycleReturnsToIdle ==
    sequential_refresh_active ~> (~sequential_refresh_active \/ worker_request_seq = MaxRequests)

(***************************************************************************)
(* C36: the registry entry and the start offset of a request outlive its   *)
(* completion/error handler unless a later fetch_news superseded it.       *)
(***************************************************************************)
\* the queued completion or error call of the request is delivered
TerminalEventDelivered(rid) ==
    /\ mpc = "idle"
    /\ queue # <<>>
    /\ Head(queue).kind \in {"done", "error"}
    /\ Head(queue).rid = rid
    /\ queue' = Tail(queue)

\* a step of the cleanup_worker that fetch_news runs on the tab's old request
Superseding(rid) ==
    \/ ctx'.cleaning = rid /\ ctx'.ret = "register"
    \/ ctx.cleaning = rid /\ ctx.ret = "register"

\* the request's handle or its recorded start offset leaves its dict
EntryRemoved(rid) ==
    \/ Has(handles_by_request_id, rid) /\ ~Has(handles_by_request_id', rid)
    \/ Has(request_start_index, rid) /\ ~Has(request_start_index', rid)

PendingTerminalEvent(rid) ==
    \E i \in 1..Len(queue) : queue[i].rid = rid /\ queue[i].kind \in {"done", "error"}

\* the completion/error handler of the request has run or is this step
HandlerRan(rid) ==
    \/ TerminalEventDelivered(rid)
    \/ req[rid].run = "emitted" /\ ~PendingTerminalEvent(rid)

\* C36: a request's handle and start offset are removed only by a superseding
\* fetch_news or once its completion/error handler has run, and the
\* completion or error event of a request that no cleanup_worker has stopped
\* is accepted by the guard (with its start offset still recorded on completion)
C36_LiveResultAccepted ==
    [][\A rid \in DOMAIN req :
          /\ (EntryRemoved(rid) /\ ~Superseding(rid)) => HandlerRan(rid)
          /\ (~req[rid].stopped /\ req'[rid].stopped /\ ~Superseding(rid)) => HandlerRan(rid)
          /\ (TerminalEventDelivered(rid) /\ ~req[rid].stopped) =>
                 /\ IsActiveWorkerRequest(req[rid].keyword, rid)
                 /\ Has(handles_by_request_id, rid)
                 /\ (Head(queue).kind = "done" => Has(request_start_index, rid))]_vars

\* the completion of a request was accepted while a newer request of another
\* tab was registered, and its handle is still in the registry
C36_Witness ==
    \E a, b \in DOMAIN req :
        /\ a < b /\ req[a].keyword # req[b].keyword
        /\ req[a].completed /\ ~req[a].stopped
        /\ Has(handles_by_request_id, a)
        /\ Has(handles_by_request_id, b)

(***************************************************************************)
(* C37: close() against late return_connection calls.                      *)
(***************************************************************************)
\* close() has run to its end and no caller holds a connection or is inside
\* get_connection or return_connection
ClosedAndAllReturned ==
    /\ closed
    /\ \A t \in Threads : pc[t] = "idle" /\ held[t] = NoConn

\* C37: once close() has completed and every checked-out connection has
\* been through return_connection, the pool holds no open connection
C37_NothingOpenAfterClose ==
    ClosedAndAllReturned =>
        \A i \in 1..Len(connection_pool) : ~connOpen[connection_pool[i]]

(***************************************************************************)
(* C38: one canonical association per keyword and fingerprint.             *)
(***************************************************************************)
\* the committed associations of keyword k that are flagged non-duplicate
\* and whose article carries fingerprint h
Canonical(k, h) ==
    {i \in 1..Len(news_keywords[k]) :
        /\ news_keywords[k][i].is_duplicate = 0
        /\ \E n \in news : n.link = news_keywords[k][i].link /\ n.title_hash = h}

\* C38: for every keyword and fingerprint at most one stored association is
\* flagged non-duplicate
C38_OneCanonical ==
    \A k \in Keywords : \A n \in news : Cardinality(Canonical(k, n.title_hash)) <= 1

(***************************************************************************)
(* C40: a cancelled worker persists nothing.                               *)
(***************************************************************************)
\* the per-item loop was left by "if not self.is_running: break": the run
\* is past the loop and raw_items still holds items the loop never visited
CancelObservedInLoop == wpc # "items" /\ raw_items # <<>>

\* C40: a worker that has observed the cancellation flag inside the
\* per-item loop does not call upsert_news with the items it has collected
\* (a call with an empty list, which returns at once, is let through), and
\* a run that has returned (as it does when it observes the flag between
\* attempts or during a backoff wait) has no upsert_news call in progress
C40_CancelledWritesNothing ==
    /\ CancelObservedInLoop => (pc[1] = "idle" /\ (ret[1] = NoReturn \/ witems = <<>>))
    /\ wpc = "done" => pc[1] = "idle"

(***************************************************************************)
(* Ingestion, bookmarks and retention by one caller.                       *)
(***************************************************************************)
\* the get_connection and return_connection steps of a data operation
PoolSteps(t) ==
    \/ GetCheck(t) \/ GetTake(t) \/ GetInc(t)
    \/ RetCheckEmergency(t) \/ RetCheckClosed(t) \/ RetDec(t) \/ RetCheckFull(t) \/ RetPut(t)

\* the steps of upsert_news between its get_connection and its finally block
BatchSteps(t, batches) ==
    \/ \E its \in batches, k \in Keywords : USelect(t, its, k)
    \/ USelectError(t)
    \/ UInsertNews(t) \/ UInsertNewsError(t)
    \/ UInsertKeywords(t) \/ UInsertKeywordsError(t)
    \/ UCommit(t) \/ UCommitError(t) \/ URollback(t)

\* the steps of the one-statement operations after their statement
StatementEnds(t) ==
    \/ StatementError(t)
    \/ StatementCommit(t) \/ StatementCommitError(t) \/ StatementRollback(t)

\* batches of one item, of the two links under titles of one fingerprint
RetentionBatches == [1..1 -> {i \in ItemValues : i.title # <<"c">>}]

NextRetention ==
    \/ Tick
    \/ CallUpsert(1, FALSE)
    \/ BatchSteps(1, RetentionBatches)
    \/ \E name \in {"delete_old_news", "delete_all_news", "update_status"} :
          CallStatement(1, name, TRUE)
    \/ \E days \in 0..MaxDays : DeleteOldNews(1, days)
    \/ DeleteAllNews(1)
    \/ \E link \in Links, value \in {0, 1} : UpdateStatus(1, link, "is_bookmarked", value)
    \/ StatementEnds(1)
    \/ PoolSteps(1)

SpecRetention == Init /\ [][NextRetention]_vars

(***************************************************************************)
(* C31: retention spares bookmarks and leaves no dangling association.     *)
(***************************************************************************)
\* every committed association refers to a committed article
AssociationsReferArticles ==
    \A k \in Keywords : \A i \in 1..Len(news_keywords[k]) :
        \E n \in news : n.link = news_keywords[k][i].link

\* no step removes an article that is bookmarked
BookmarkedKept ==
    \A n \in news : n.is_bookmarked = 1 => \E m \in news' : m.link = n.link

\* C31: delete_old_news and delete_all_news never remove a bookmarked
\* article, and after any sequence of upserts and deletions every keyword
\* association refers to an existing article
C31_RetentionKeepsBookmarks == []AssociationsReferArticles /\ [][BookmarkedKept]_vars

\* a deletion has just committed: it removed the unbookmarked article and
\* its associations and left the bookmarked one with its association
C31_Witness ==
    /\ op[1] \in {"delete_old_news", "delete_all_news"}
    /\ pc[1] = "ret_emerg"
    /\ ret[1] = StatementReturn(op[1], 1)
    /\ \E n \in news :
          /\ n.is_bookmarked = 1
          /\ news = {n}
          /\ \E k \in Keywords : Len(news_keywords[k]) = 1 /\ news_keywords[k][1].link = n.link

(***************************************************************************)
(* Ingestion and user marks on one article by one caller.                  *)
(***************************************************************************)
\* batches of one item of link l1, under either of its titles
MarkBatches == [1..1 -> {i \in ItemValues : i.link = "l1"}]

NextMarks ==
    \/ Tick
    \/ CallUpsert(1, FALSE)
    \/ BatchSteps(1, MarkBatches)
    \/ \E allowed \in BOOLEAN : CallStatement(1, "update_status", allowed)
    \/ CallStatement(1, "mark_all_as_read", TRUE)
    \/ \E field \in UpdateFields :
          \E value \in IF field = "notes" THEN {<<"n">>} ELSE {0, 1} :
             UpdateStatus(1, "l1", field, value)
    \/ \E k \in Keywords, only_bookmark \in BOOLEAN : MarkAllAsRead(1, k, only_bookmark)
    \/ StatementEnds(1)
    \/ PoolSteps(1)

SpecMarks == Init /\ [][NextMarks]_vars

(***************************************************************************)
(* C39: what upsert_news leaves alone on a stored link.                    *)
(***************************************************************************)
\* the user columns and creation time of every stored article are the same
\* after the step
UserColumnsKept ==
    \A o \in news : \E n \in news' :
        /\ n.link = o.link
        /\ n.is_read = o.is_read
        /\ n.is_bookmarked = o.is_bookmarked
        /\ n.notes = o.notes
        /\ n.created_at = o.created_at

\* C39: the commit of an upsert_news batch leaves is_read, is_bookmarked,
\* notes and created_at of every article that was already stored unchanged,
\* and leaves the associations of every other keyword, with their duplicate
\* flags, unchanged
C39_UpsertKeepsUserState ==
    [][\A t \in Threads :
          UCommit(t) =>
              /\ UserColumnsKept
              /\ \A k \in Keywords \ {keyword[t]} : news_keywords'[k] = news_keywords[k]]_vars

\* a batch has just been committed on an article that was stored a second
\* earlier, was read, bookmarked and annotated, and is associated with both
\* keywords
C39_Witness ==
    /\ op[1] = "upsert" /\ pc[1] = "ret_emerg" /\ ret[1] = <<0, 1>>
    /\ clock = 1
    /\ \E n \in news :
          /\ n.created_at = 0 /\ n.is_read = 1 /\ n.is_bookmarked = 1 /\ n.notes = <<"n">>
          /\ n.title = <<"c">>
    /\ \A k \in Keywords : Len(news_keywords[k]) = 1

(***************************************************************************)
(* Data operations of several callers on one pool.                         *)
(***************************************************************************)
\* the one batch the callers ingest
OpsBatches == [1..1 -> {i \in ItemValues : i.link = "l1" /\ i.title = <<"c">>}]

\* thread 1 ingests a batch, thread 2 clears the store and thread 3 marks
\* articles read, each once and all at the same time
NextOps ==
    \/ (ret[1] = NoReturn /\ CallUpsert(1, FALSE))
    \/ BatchSteps(1, OpsBatches)
    \/ (ret[2] = NoReturn /\ CallStatement(2, "delete_all_news", TRUE))
    \/ DeleteAllNews(2)
    \/ (ret[3] = NoReturn /\ CallStatement(3, "mark_all_as_read", TRUE))
    \/ \E k \in Keywords, only_bookmark \in BOOLEAN : MarkAllAsRead(3, k, only_bookmark)
    \/ \E t \in Threads : StatementEnds(t) \/ PoolSteps(t) \/ GetEmergency(t)

SpecOps == Init /\ [][NextOps]_vars

(***************************************************************************)
(* C32: every data operation gives its connection back.                    *)
(***************************************************************************)
\* how often connection c is queued in pool q
TimesInPool(q, c) == Cardinality({i \in 1..Len(q) : q[i] = c})

\* no data operation, get_connection or return_connection is in progress
\* and no caller holds a connection
NoOperationInProgress == \A t \in Threads : pc[t] = "idle" /\ held[t] = NoConn

\* the step with which the data operation of thread t returns or raises
OperationReturns(t) ==
    /\ op[t] \in StatementOps \cup {"upsert"}
    /\ pc[t] # "idle"
    /\ pc'[t] = "idle"

\* the connection the operation acquired is back in the pool once and open,
\* or closed and not in the pool
GivenBack(c) ==
    \/ TimesInPool(connection_pool', c) = 1 /\ connOpen'[c]
    \/ TimesInPool(connection_pool', c) = 0 /\ ~connOpen'[c]

====
